---- MODULE Spec2Model ----
(***************************************************************************)
(* Model of the fixed-width bit-vector core, pypy/module/mamba/bits.py.    *)
(*                                                                         *)
(* A big integer (rbigint) is a record [digits, size, sign]: digits is the *)
(* digit list (least significant first, 1-indexed here, 0-indexed in the   *)
(* source), size is numdigits() and sign is -1, 0 or 1.  A Bits object is  *)
(* a record [cls, nbits, intval, bigval, next_intval, next_bigval].        *)
(*                                                                         *)
(* The digit width SHIFT is scaled down from the platform's 63 (or 31) to  *)
(* 2 bits, and the machine word from 64 to SHIFT+1 bits, so that widths on *)
(* both sides of the word/big boundary, multi-digit values and machine     *)
(* overflow all occur inside a finite state space.                         *)
(***************************************************************************)
EXTENDS Integers, Sequences, FiniteSets, TLC

\* Digit width of the big-integer representation (scaled).
SHIFT == 2

\* Largest width of a Bits object the model constructs (512 in the source).
MaxBits == 8

BASE == 2^SHIFT
MASK == BASE - 1

Max(a, b) == IF a >= b THEN a ELSE b
Min(a, b) == IF a <= b THEN a ELSE b
Abs(a) == IF a < 0 THEN 0 - a ELSE a
Sign(v) == IF v > 0 THEN 1 ELSE IF v < 0 THEN 0 - 1 ELSE 0

----------------------------------------------------------------------------
(* Machine integers: SHIFT+1 bits, two's complement.                       *)

MinInt == 0 - BASE
MaxInt == BASE - 1
MachineInts == MinInt..MaxInt

\* rarithmetic.intmask: wrap to the machine word
intmask(v) == LET m == v % (2 * BASE) IN IF m >= BASE THEN m - 2 * BASE ELSE m

\* ovfcheck raises OverflowError exactly when the result left the machine word
ovfcheck_raises(v) == v < MinInt \/ v > MaxInt

RECURSIVE AndZ(_, _)
AndZ(a, b) == IF a = 0 \/ b = 0 THEN 0
              ELSE IF a = -1 THEN b
              ELSE IF b = -1 THEN a
              ELSE (a % 2) * (b % 2) + 2 * AndZ(a \div 2, b \div 2)

RECURSIVE OrZ(_, _)
OrZ(a, b) == IF a = 0 THEN b
             ELSE IF b = 0 THEN a
             ELSE IF a = -1 \/ b = -1 THEN -1
             ELSE Max(a % 2, b % 2) + 2 * OrZ(a \div 2, b \div 2)

RECURSIVE XorZ(_, _)
XorZ(a, b) == IF a = 0 THEN b
              ELSE IF b = 0 THEN a
              ELSE IF a = -1 THEN (0 - 1) - b
              ELSE IF b = -1 THEN (0 - 1) - a
              ELSE ((a + b) % 2) + 2 * XorZ(a \div 2, b \div 2)

\* x >> s and x << s on machine integers (the left shift wraps)
int_rshift(x, s) == x \div (2^s)
int_lshift(x, s) == intmask(x * (2^s))
int_invert(x) == (0 - 1) - x

get_int_mask(i) == intmask(2^i - 1)

RECURSIVE int_bit_length_loop(_, _)
int_bit_length_loop(val, bits) ==
    IF val = 0 THEN bits ELSE int_bit_length_loop(val \div 2, bits + 1)

int_bit_length(val) ==
    IF val < 0 THEN int_bit_length_loop(0 - ((val + 1) \div 2), 1)
    ELSE int_bit_length_loop(val, 0)

----------------------------------------------------------------------------
(* rbigint: the library's big integer, modelled by value where bits.py     *)
(* calls the library and by digits where bits.py works on the digits.      *)

Zeros(n) == [i \in 1..n |-> 0]
Take(s, n) == SubSeq(s, 1, Min(n, Len(s)))
Drop(s, n) == SubSeq(s, n + 1, Len(s))
Slice(s, a, b) == SubSeq(s, a + 1, Min(b, Len(s)))

\* rbigint( digits, sign, size ): a size of 0 means len(digits)
rbigint(digits, sign, size) ==
    [digits |-> digits, sign |-> sign,
     size |-> IF size = 0 THEN Len(digits) ELSE size]

NULLRBIGINT == rbigint(<<0>>, 0, 1)

numdigits(b) == b.size
digit(b, i) == b.digits[i + 1]
setdigit(b, i, val) == [b EXCEPT !.digits[i + 1] = val % BASE]

RECURSIVE StripZeros(_, _)
StripZeros(ds, i) == IF i > 1 /\ ds[i] = 0 THEN StripZeros(ds, i - 1) ELSE i

_normalize(b) ==
    LET i == StripZeros(b.digits, b.size) IN
    IF i = 1 /\ b.digits[1] = 0
    THEN [digits |-> <<0>>, sign |-> 0, size |-> 1]
    ELSE [b EXCEPT !.size = i]

RECURSIVE Magnitude(_, _)
Magnitude(ds, n) == IF n = 0 THEN 0 ELSE ds[n] * BASE^(n - 1) + Magnitude(ds, n - 1)

\* the integer a big integer denotes: sign * (its size low digits)
tolong(b) == b.sign * Magnitude(b.digits, b.size)

RECURSIVE DigitsOf(_)
DigitsOf(m) == IF m < BASE THEN <<m>> ELSE <<m % BASE>> \o DigitsOf(m \div BASE)

\* the normalised big integer of an integer
fromlong(v) ==
    IF v = 0 THEN NULLRBIGINT
    ELSE LET ds == DigitsOf(Abs(v)) IN
         [digits |-> ds, sign |-> IF v < 0 THEN -1 ELSE 1, size |-> Len(ds)]

fromint(v) == fromlong(v)

rb_add(a, b) == fromlong(tolong(a) + tolong(b))
rb_sub(a, b) == fromlong(tolong(a) - tolong(b))
rb_mul(a, b) == fromlong(tolong(a) * tolong(b))
rb_and_(a, b) == fromlong(AndZ(tolong(a), tolong(b)))
rb_or_(a, b) == fromlong(OrZ(tolong(a), tolong(b)))
rb_xor(a, b) == fromlong(XorZ(tolong(a), tolong(b)))
rb_int_add(a, i) == fromlong(tolong(a) + i)
rb_int_sub(a, i) == fromlong(tolong(a) - i)
rb_int_mul(a, i) == fromlong(tolong(a) * i)
rb_int_and_(a, i) == fromlong(AndZ(tolong(a), i))
rb_int_or_(a, i) == fromlong(OrZ(tolong(a), i))
rb_int_xor(a, i) == fromlong(XorZ(tolong(a), i))

\* the table LONG_MASKS: entry 0 is rbigint([NULLDIGIT], 1, 1), entry i is
\* entry i-1 .int_mul(2).int_add(1), that is 2^i - 1
RECURSIVE long_mask_entry(_)
long_mask_entry(i) ==
    IF i = 0 THEN rbigint(<<0>>, 1, 1)
    ELSE rb_int_add(rb_int_mul(long_mask_entry(i - 1), 2), 1)

LONG_MASKS == [i \in 0..(MaxBits + 2) |-> long_mask_entry(i)]

get_long_mask(i) == LONG_MASKS[i]

\* rbigint.lshift( n ), n >= 0, digit by digit: a shift by whole digits
\* prepends zero digits to the digit list as it is; otherwise the result has
\* one digit more than the operand before it is normalised
rb_lshift(a, n) ==
    IF n = 0 THEN a
    ELSE LET wordshift == n \div SHIFT
             remshift == n - wordshift * SHIFT
         IN IF remshift = 0
            THEN IF a.sign = 0 THEN a
                 ELSE rbigint(Zeros(wordshift) \o a.digits, a.sign, a.size + wordshift)
            ELSE LET oldsize == numdigits(a)
                     newsize == oldsize + wordshift + 1
                     m == Magnitude(a.digits, oldsize) * 2^remshift
                     zd == [i \in 1..newsize |->
                              IF i <= wordshift THEN 0
                              ELSE (m \div BASE^(i - 1 - wordshift)) % BASE]
                 IN _normalize(rbigint(zd, a.sign, newsize))

\* rbigint.bit_length(): of the magnitude
rb_bit_length(a) == int_bit_length_loop(Abs(tolong(a)), 0)

\* rbigint.eq: sign, size, then the significant digits
rb_eq(a, b) ==
    /\ a.sign = b.sign
    /\ numdigits(a) = numdigits(b)
    /\ \A i \in 0..(numdigits(a) - 1) : digit(a, i) = digit(b, i)

_store_digit(v) == intmask(v)

----------------------------------------------------------------------------
(* The digit-array primitives of bits.py.                                  *)

_rbigint_maskoff_high(value, masklen) ==
    IF value.sign = 0 THEN value
    ELSE LET lastword == (masklen - 1) \div SHIFT
             masksize == lastword + 1
         IN IF masksize > numdigits(value) THEN value
            ELSE LET ret == rbigint(Take(value.digits, masksize), 1, masksize)
                     maskbit == masklen % SHIFT
                     lastdigit == digit(ret, lastword)
                     mask == get_int_mask(maskbit)
                 IN _normalize(IF maskbit # 0 /\ lastdigit >= mask
                               THEN setdigit(ret, lastword, AndZ(lastdigit, mask))
                               ELSE ret)

_rbigint_rshift_maskoff(value, shamt, masklen) ==
    IF value.sign = 0 THEN value
    ELSE IF shamt = 0 THEN _rbigint_maskoff_high(value, masklen)
    ELSE LET wordshift == shamt \div SHIFT
             oldsize == numdigits(value)
         IN IF oldsize <= wordshift THEN NULLRBIGINT
            ELSE LET newsize == oldsize - wordshift
                     masksize == (masklen - 1) \div SHIFT + 1
                     retsize == Min(newsize, masksize)
                     loshift == shamt - wordshift * SHIFT
                     hishift == SHIFT - loshift
                     newdigit(i) ==
                        LET lo == int_rshift(digit(value, wordshift + i), loshift)
                        IN IF i + 1 < newsize
                           THEN OrZ(lo, int_lshift(digit(value, wordshift + i + 1), hishift))
                           ELSE lo
                     ret == rbigint([k \in 1..retsize |-> newdigit(k - 1) % BASE], 1, retsize)
                     maskbit == masklen % SHIFT
                     lastword == retsize - 1
                     lastdigit == digit(ret, lastword)
                     mask == get_int_mask(maskbit)
                 IN _normalize(IF masksize <= retsize /\ maskbit # 0 /\ lastdigit >= mask
                               THEN setdigit(ret, lastword, AndZ(lastdigit, mask))
                               ELSE ret)

_rbigint_rshift_maskoff_retint(value, shamt, masklen) ==
    IF value.sign = 0 THEN 0
    ELSE IF shamt = 0 THEN AndZ(digit(value, 0), get_int_mask(masklen))
    ELSE LET wordshift == shamt \div SHIFT
             oldsize == numdigits(value)
         IN IF oldsize <= wordshift THEN 0
            ELSE LET newsize == oldsize - wordshift
                     loshift == shamt - wordshift * SHIFT
                     hishift == SHIFT - loshift
                     lo == int_rshift(digit(value, wordshift), loshift)
                     ret == IF newsize > 1
                            THEN OrZ(lo, int_lshift(digit(value, wordshift + 1), hishift))
                            ELSE lo
                 IN AndZ(ret, get_int_mask(masklen))

\* value.digit(wordpos) of _rbigint_getidx lies outside the digit list: the
\* read is undefined (an IndexError before translation, any digit after)
getidx_reads_outside(value, index) ==
    LET wordpos == index \div SHIFT
    IN ~(wordpos > numdigits(value)) /\ wordpos >= Len(value.digits)

\* g is the digit an undefined read yields
_rbigint_getidx(value, index, g) ==
    LET wordpos == index \div SHIFT
    IN IF wordpos > numdigits(value) THEN 0
       ELSE LET bitpos == index - wordpos * SHIFT
                d == IF wordpos < Len(value.digits) THEN digit(value, wordpos) ELSE g
            IN AndZ(int_rshift(d, bitpos), 1)

_rbigint_setidx(value, index, other) ==
    LET size == numdigits(value)
        wordpos == index \div SHIFT
        bitpos == index - wordpos * SHIFT
        shift == int_lshift(1, bitpos)
    IN IF wordpos >= size
       THEN IF other = 0 THEN value
            ELSE rbigint(Take(value.digits, size) \o Zeros(wordpos - size)
                           \o <<_store_digit(shift)>>, 1, wordpos + 1)
       ELSE LET d == digit(value, wordpos) IN
            IF other = 1
            THEN IF AndZ(d, shift) # 0 THEN value
                 ELSE setdigit(rbigint(Take(value.digits, size), 1, size),
                               wordpos, OrZ(d, shift))
            ELSE IF AndZ(d, shift) = 0 THEN value
                 ELSE LET d2 == XorZ(d, shift) IN
                      IF d2 = 0 /\ wordpos = size - 1
                      THEN rbigint(Take(value.digits, wordpos) \o <<0>>, 1, wordpos)
                      ELSE setdigit(rbigint(Take(value.digits, size), 1, size),
                                    wordpos, d2)

\* ret._digits[i] = NULLDIGIT for every i in lo..hi-1
ZeroDigits(b, lo, hi) ==
    [b EXCEPT !.digits = [k \in 1..Len(b.digits) |->
                            IF k - 1 >= lo /\ k - 1 < hi THEN 0 ELSE b.digits[k]]]

\* ret.setdigit( i, other.digit(i) ) for every i in lo..hi-1
CopyDigits(b, o, lo, hi) ==
    [b EXCEPT !.digits = [k \in 1..Len(b.digits) |->
                            IF k - 1 >= lo /\ k - 1 < hi THEN digit(o, k - 1) % BASE
                            ELSE b.digits[k]]]

RECURSIVE setitem_long_long_helper(_, _, _, _, _)
RECURSIVE setitem_long_int_helper(_, _, _, _, _)

\* the source operand of setitem_long_long_helper once it is reduced and aligned
long_long_aligned(other0, start, stop) ==
    rb_lshift(IF other0.sign < 0 THEN rb_and_(other0, get_long_mask(stop - start))
              ELSE other0, start)

\* other.digit(wordstop) of setitem_long_long_helper ("do stop") lies outside
\* the digit list of the aligned source: the read is undefined
long_long_reads_outside(value, other0, start, stop) ==
    /\ numdigits(other0) > 1
    /\ ~(other0.sign < 0 /\ numdigits(rb_and_(other0, get_long_mask(stop - start))) = 1)
    /\ LET other == long_long_aligned(other0, start, stop)
           vsize == numdigits(value)
           wordstart == start \div SHIFT
           wordstop == stop \div SHIFT
       IN /\ ~(wordstart >= vsize)
          /\ wordstop < vsize
          /\ stop - wordstop * SHIFT # 0
          /\ wordstop >= Len(other.digits)

\* g is the digit an undefined read yields
setitem_long_long_helper(value, other0, start, stop, g) ==
    IF numdigits(other0) <= 1
    THEN setitem_long_int_helper(value, digit(other0, 0), start, stop, g)
    ELSE IF other0.sign < 0
            /\ numdigits(rb_and_(other0, get_long_mask(stop - start))) = 1
    THEN setitem_long_int_helper(value,
            digit(rb_and_(other0, get_long_mask(stop - start)), 0), start, stop, g)
    ELSE
    LET vsize == numdigits(value)
        other == long_long_aligned(other0, start, stop)
        osize == numdigits(other)
        wordstart == start \div SHIFT
        wordstop == stop \div SHIFT
        bitstart == start - wordstart * SHIFT
        bitstop == stop - wordstop * SHIFT
    IN IF wordstart >= vsize
       THEN rbigint(Take(value.digits, vsize) \o Drop(other.digits, vsize), 1, osize)
       ELSE IF wordstop < vsize
       THEN LET ret0 == rbigint(Take(value.digits, vsize), 1, vsize)
                tmpstart == OrZ(digit(other, wordstart),
                                AndZ(digit(ret0, wordstart), get_int_mask(bitstart)))
                ret1 == setdigit(ret0, wordstart, tmpstart)
                ret2 == IF osize < wordstop
                        THEN ZeroDigits(CopyDigits(ret1, other, wordstart + 1, osize),
                                        Max(wordstart + 1, osize), wordstop)
                        ELSE CopyDigits(ret1, other, wordstart + 1, wordstop)
                ostop == IF wordstop < Len(other.digits)
                         THEN digit(other, wordstop) ELSE g
                masked_val == AndZ(digit(ret2, wordstop),
                                   int_invert(get_int_mask(bitstop)))
            IN IF bitstop # 0
               THEN setdigit(ret2, wordstop, OrZ(ostop, masked_val))
               ELSE ret2
       ELSE LET ret0 == rbigint(Take(value.digits, wordstart)
                                  \o Slice(other.digits, wordstart, osize), 1, osize)
                masked_val == AndZ(digit(value, wordstart), get_int_mask(bitstart))
            IN IF bitstart # 0
               THEN setdigit(ret0, wordstart, OrZ(masked_val, digit(ret0, wordstart)))
               ELSE ret0

setitem_long_int_helper(value, other0, start, stop, g) ==
    LET vsize == numdigits(value)
        slice_nbits == stop - start
    IN
    IF other0 < 0 /\ ~(slice_nbits < SHIFT)
    THEN setitem_long_long_helper(value,
            rb_int_and_(get_long_mask(slice_nbits), other0), start, stop, g)
    ELSE
    LET other == IF other0 < 0 THEN AndZ(other0, get_int_mask(slice_nbits)) ELSE other0
        wordstart == start \div SHIFT
        bitstart == start - wordstart * SHIFT
        wordstop == stop \div SHIFT
        bitstop == stop - wordstop * SHIFT
        lo == SHIFT - bitstart
        val1 == AndZ(other, get_int_mask(lo))
        val2 == int_rshift(other, lo)
        head == Take(value.digits, vsize) \o Zeros(wordstart - vsize)
    IN IF wordstart >= vsize
       THEN IF other = 0 THEN value
            ELSE IF bitstart = 0
            THEN rbigint(head \o <<_store_digit(other)>>, 1, wordstart + 1)
            ELSE IF val1 = other
            THEN rbigint(head \o <<_store_digit(int_lshift(val1, bitstart))>>,
                         1, wordstart + 1)
            ELSE rbigint(head \o <<_store_digit(int_lshift(val1, bitstart))>>
                              \o <<_store_digit(val2)>>, 1, wordstart + 2)
       ELSE IF wordstop < vsize
       THEN LET ret == rbigint(Take(value.digits, vsize), 1, vsize)
                maskstop == get_int_mask(bitstop)
                valstop == digit(ret, wordstop)
                himasked == AndZ(valstop, int_invert(maskstop))
            IN _normalize(
               IF wordstop = wordstart
               THEN LET valuemask == int_invert(maskstop - get_int_mask(bitstart))
                    IN setdigit(ret, wordstop,
                                OrZ(AndZ(valstop, valuemask), int_lshift(other, bitstart)))
               ELSE IF bitstart = 0
               THEN setdigit(ZeroDigits(setdigit(ret, wordstart, other),
                                        wordstart + 1, wordstop),
                             wordstop, himasked)
               ELSE LET word == OrZ(AndZ(digit(ret, wordstart), get_int_mask(bitstart)),
                                    int_lshift(val1, bitstart))
                        ret1 == setdigit(ret, wordstart, word)
                    IN IF wordstart + 1 = wordstop
                       THEN setdigit(ret1, wordstop, OrZ(val2, himasked))
                       ELSE setdigit(ZeroDigits(setdigit(ret1, wordstart + 1, val2),
                                                wordstart + 2, wordstop),
                                     wordstop, himasked))
       ELSE LET ret == rbigint(Take(value.digits, wordstart) \o <<0, 0>>,
                               1, wordstart + 2)
            IN _normalize(
               IF bitstart = 0 THEN setdigit(ret, wordstart, other)
               ELSE LET word == OrZ(AndZ(digit(value, wordstart), get_int_mask(bitstart)),
                                    int_lshift(val1, bitstart))
                        ret1 == setdigit(ret, wordstart, word)
                    IN IF val1 # other
                       THEN setdigit(ret1, wordstart + 1, val2)
                       ELSE ret1)

----------------------------------------------------------------------------
(* W_Bits objects and the values handed to their operators.                *)

\* the null reference in a bigval slot
NoBig == [digits |-> <<>>, sign |-> 0, size |-> 0]

W_Bits(nbits, intval, bigval) ==
    [cls |-> "Bits", nbits |-> nbits, intval |-> intval, bigval |-> bigval,
     next_intval |-> 0, next_bigval |-> NoBig]

\* an operand: a W_IntObject, a W_LongObject or a W_Bits
W_Int(v) == [kind |-> "int", intval |-> v, num |-> NoBig, bits |-> W_Bits(0, 0, NoBig)]
W_Long(v) == [kind |-> "long", intval |-> 0, num |-> fromlong(v), bits |-> W_Bits(0, 0, NoBig)]
W_Obj(b) == [kind |-> "bits", intval |-> 0, num |-> NoBig, bits |-> b]

\* what a call does: it raises err, or returns the object val
Return(b) == [err |-> "", val |-> b]
Raise(e) == [err |-> e, val |-> W_Bits(0, 0, NoBig)]

\* Bits( nbits, value ) with an int nbits
descr_new(nbits, w_value) ==
    IF nbits < 1 \/ nbits > 512 THEN Raise("ValueError")
    ELSE IF nbits <= SHIFT
    THEN LET mask == get_int_mask(nbits) IN
         CASE w_value.kind = "bits" ->
                IF w_value.bits.nbits <= SHIFT
                THEN Return(W_Bits(nbits, AndZ(w_value.bits.intval, mask), NoBig))
                ELSE Return(W_Bits(nbits, AndZ(digit(w_value.bits.bigval, 0), mask), NoBig))
           [] w_value.kind = "int" ->
                Return(W_Bits(nbits, AndZ(w_value.intval, mask), NoBig))
           [] w_value.kind = "long" ->
                Return(W_Bits(nbits, digit(rb_int_and_(w_value.num, mask), 0), NoBig))
    ELSE CASE w_value.kind = "bits" ->
                IF w_value.bits.nbits <= SHIFT
                THEN Return(W_Bits(nbits, 0, fromint(w_value.bits.intval)))
                ELSE Return(W_Bits(nbits, 0,
                                   _rbigint_maskoff_high(w_value.bits.bigval, nbits)))
           [] w_value.kind = "int" ->
                Return(W_Bits(nbits, 0, rb_int_and_(get_long_mask(nbits), w_value.intval)))
           [] w_value.kind = "long" ->
                Return(W_Bits(nbits, 0, rb_and_(get_long_mask(nbits), w_value.num)))

\* x.uint(): the payload the width selects, as an integer
descr_uint(self) ==
    IF self.nbits <= SHIFT THEN self.intval ELSE tolong(self.bigval)

----------------------------------------------------------------------------
(* Binary operators: add, sub, mul (ovf) and and, or, xor.                 *)

ArithOps == {"add", "sub", "mul"}
LogicOps == {"and", "or", "xor"}
COMMUTATIVE_OPS == {"add", "mul", "and", "or", "xor"}

\* operator.<op> on machine integers, before any overflow check
iiop(op, a, b) ==
    CASE op = "add" -> a + b
      [] op = "sub" -> a - b
      [] op = "mul" -> a * b
      [] op = "and" -> AndZ(a, b)
      [] op = "or" -> OrZ(a, b)
      [] op = "xor" -> XorZ(a, b)

\* rbigint.int_<op>
liop(op, a, i) ==
    CASE op = "add" -> rb_int_add(a, i)
      [] op = "sub" -> rb_int_sub(a, i)
      [] op = "mul" -> rb_int_mul(a, i)
      [] op = "and" -> rb_int_and_(a, i)
      [] op = "or" -> rb_int_or_(a, i)
      [] op = "xor" -> rb_int_xor(a, i)

\* rbigint.<op>
llop(op, a, b) ==
    CASE op = "add" -> rb_add(a, b)
      [] op = "sub" -> rb_sub(a, b)
      [] op = "mul" -> rb_mul(a, b)
      [] op = "and" -> rb_and_(a, b)
      [] op = "or" -> rb_or_(a, b)
      [] op = "xor" -> rb_xor(a, b)

\* the word fast path of add, sub, mul and its fallback on OverflowError
binop_word(op, nbits, x, y) ==
    LET mask == get_int_mask(nbits) IN
    IF ~ovfcheck_raises(iiop(op, x, y))
    THEN W_Bits(nbits, AndZ(iiop(op, x, y), mask), NoBig)
    ELSE LET z == liop(op, fromint(x), y) IN
         IF op \in COMMUTATIVE_OPS
         THEN W_Bits(nbits, AndZ(digit(z, 0), mask), NoBig)
         ELSE W_Bits(nbits, digit(rb_int_and_(z, mask), 0), NoBig)

\* a reducer that takes mask-off-high for sub as well
binop_reduce_maskoff(op, z, nbits) == _rbigint_maskoff_high(z, nbits)

\* the reducer of the big path: an AND for sub, mask-off-high for add and mul
binop_reduce(op, z, nbits) ==
    IF op = "sub" THEN rb_and_(z, get_long_mask(nbits))
    ELSE _rbigint_maskoff_high(z, nbits)

descr_binop(op, self, w_other) ==
    IF op \in ArithOps
    THEN IF self.nbits <= SHIFT
         THEN LET x == self.intval IN
              CASE w_other.kind = "bits" ->
                     IF w_other.bits.nbits <= SHIFT
                     THEN Return(binop_word(op, Max(self.nbits, w_other.bits.nbits),
                                            x, w_other.bits.intval))
                     ELSE LET y == w_other.bits.bigval IN
                          IF op \in COMMUTATIVE_OPS
                          THEN Return(W_Bits(w_other.bits.nbits, 0,
                                 _rbigint_maskoff_high(liop(op, y, x), w_other.bits.nbits)))
                          ELSE Return(W_Bits(w_other.bits.nbits, 0,
                                 rb_and_(llop(op, fromint(x), y),
                                         get_long_mask(w_other.bits.nbits))))
                [] w_other.kind = "int" ->
                     Return(binop_word(op, self.nbits, x, w_other.intval))
                [] w_other.kind = "long" ->
                     LET y == w_other.num
                         mask == get_int_mask(self.nbits)
                     IN IF op \in COMMUTATIVE_OPS
                        THEN Return(W_Bits(self.nbits,
                                           digit(rb_int_and_(liop(op, y, x), mask), 0), NoBig))
                        ELSE Return(W_Bits(self.nbits,
                                           digit(rb_int_and_(llop(op, fromint(x), y), mask), 0),
                                           NoBig))
         ELSE LET x == self.bigval IN
              CASE w_other.kind = "bits" ->
                     IF w_other.bits.nbits <= SHIFT
                     THEN Return(W_Bits(self.nbits, 0,
                            binop_reduce(op, liop(op, x, w_other.bits.intval), self.nbits)))
                     ELSE LET res_nbits == Max(self.nbits, w_other.bits.nbits) IN
                          Return(W_Bits(res_nbits, 0,
                            binop_reduce(op, llop(op, x, w_other.bits.bigval), res_nbits)))
                [] w_other.kind = "int" ->
                     Return(W_Bits(self.nbits, 0,
                            binop_reduce(op, liop(op, x, w_other.intval), self.nbits)))
                [] w_other.kind = "long" ->
                     Return(W_Bits(self.nbits, 0,
                            binop_reduce(op, llop(op, x, w_other.num), self.nbits)))
    ELSE IF self.nbits <= SHIFT
         THEN LET x == self.intval IN
              CASE w_other.kind = "bits" ->
                     IF w_other.bits.nbits <= SHIFT
                     THEN Return(W_Bits(Max(self.nbits, w_other.bits.nbits),
                                        iiop(op, x, w_other.bits.intval), NoBig))
                     ELSE Return(W_Bits(w_other.bits.nbits, 0,
                                        liop(op, w_other.bits.bigval, x)))
                [] w_other.kind = "int" ->
                     Return(W_Bits(self.nbits, iiop(op, x, w_other.intval), NoBig))
                [] w_other.kind = "long" ->
                     Return(W_Bits(self.nbits, 0, liop(op, w_other.num, x)))
         ELSE LET x == self.bigval IN
              CASE w_other.kind = "bits" ->
                     IF w_other.bits.nbits <= SHIFT
                     THEN Return(W_Bits(self.nbits, 0, liop(op, x, w_other.bits.intval)))
                     ELSE Return(W_Bits(Max(self.nbits, w_other.bits.nbits), 0,
                                        llop(op, x, w_other.bits.bigval)))
                [] w_other.kind = "int" ->
                     Return(W_Bits(self.nbits, 0, liop(op, x, w_other.intval)))
                [] w_other.kind = "long" ->
                     Return(W_Bits(self.nbits, 0, llop(op, x, w_other.num)))

----------------------------------------------------------------------------
(* Indexing: b[i], b[start:stop], b[i] = v, b[start:stop] = v.             *)

\* check_slice_range raises
check_slice_range_raises(self, start, stop) ==
    start >= stop \/ start < 0 \/ stop > self.nbits

\* b[start:stop], the bounds already machine integers
getitem_slice(self, start, stop) ==
    IF check_slice_range_raises(self, start, stop) THEN Raise("ValueError")
    ELSE LET slice_nbits == stop - start IN
         IF self.nbits <= SHIFT
         THEN Return(W_Bits(slice_nbits,
                AndZ(int_rshift(self.intval, start), get_int_mask(slice_nbits)), NoBig))
         ELSE IF slice_nbits <= SHIFT
         THEN Return(W_Bits(slice_nbits,
                _rbigint_rshift_maskoff_retint(self.bigval, start, slice_nbits), NoBig))
         ELSE Return(W_Bits(slice_nbits, 0,
                _rbigint_rshift_maskoff(self.bigval, start, slice_nbits)))

\* b[index] makes an undefined read: a shift by a negative count, or a digit
\* outside the digit list
getitem_undefined(self, index) ==
    /\ index < self.nbits
    /\ \/ index < 0
       \/ self.nbits > SHIFT /\ getidx_reads_outside(self.bigval, index)

\* b[index], the index already a machine integer; g is the digit an
\* undefined read yields, or -1 when the read raises
getitem_bit(self, index, g) ==
    IF index >= self.nbits THEN Raise("ValueError")
    ELSE IF getitem_undefined(self, index)
    THEN IF g < 0 THEN Raise("IndexError")
         ELSE IF index < 0 THEN Return(W_Bits(1, g % 2, NoBig))
         ELSE Return(W_Bits(1, _rbigint_getidx(self.bigval, index, g), NoBig))
    ELSE IF self.nbits <= SHIFT
    THEN Return(W_Bits(1, AndZ(int_rshift(self.intval, index), 1), NoBig))
    ELSE Return(W_Bits(1, _rbigint_getidx(self.bigval, index, 0), NoBig))

\* the word-form slice write: (intval & ~(mask << start)) | (other << start)
setslice_word(self, other, start, stop) ==
    LET mask == get_int_mask(stop - start)
        valuemask == int_invert(int_lshift(mask, start))
    IN [self EXCEPT !.intval = OrZ(AndZ(self.intval, valuemask), int_lshift(other, start))]

\* b[start:stop] = w_other makes an undefined read
setitem_slice_undefined(self, start, stop, w_other) ==
    /\ ~check_slice_range_raises(self, start, stop)
    /\ self.nbits > SHIFT
    /\ CASE w_other.kind = "bits" ->
              IF w_other.bits.nbits > SHIFT
              THEN long_long_reads_outside(self.bigval, w_other.bits.bigval, start, stop)
              ELSE /\ w_other.bits.intval < 0
                   /\ stop - start >= SHIFT
                   /\ long_long_reads_outside(self.bigval,
                         rb_int_and_(get_long_mask(stop - start), w_other.bits.intval),
                         start, stop)
         [] w_other.kind = "int" ->
              /\ int_bit_length(w_other.intval) <= stop - start
              /\ long_long_reads_outside(self.bigval,
                    rb_int_and_(get_long_mask(stop - start), w_other.intval), start, stop)
         [] w_other.kind = "long" ->
              /\ rb_bit_length(w_other.num) <= stop - start
              /\ long_long_reads_outside(self.bigval,
                    rb_and_(get_long_mask(stop - start), w_other.num), start, stop)

\* b[start:stop] = w_other, the bounds already machine integers; returns self
\* as the call leaves it
setitem_slice(self, start, stop, w_other, g) ==
    IF check_slice_range_raises(self, start, stop) THEN Raise("ValueError")
    ELSE IF setitem_slice_undefined(self, start, stop, w_other) /\ g < 0
    THEN Raise("IndexError")
    ELSE
    LET slice_nbits == stop - start IN
    IF self.nbits <= SHIFT
    THEN CASE w_other.kind = "bits" ->
                IF w_other.bits.nbits > slice_nbits THEN Raise("ValueError")
                ELSE Return(setslice_word(self, w_other.bits.intval, start, stop))
           [] w_other.kind = "int" ->
                IF int_bit_length(w_other.intval) > slice_nbits THEN Raise("ValueError")
                ELSE Return(setslice_word(self,
                        AndZ(w_other.intval, get_int_mask(slice_nbits)), start, stop))
           [] w_other.kind = "long" ->
                IF rb_bit_length(w_other.num) > slice_nbits THEN Raise("ValueError")
                ELSE Return(setslice_word(self,
                        digit(rb_int_and_(w_other.num, get_int_mask(slice_nbits)), 0),
                        start, stop))
    ELSE CASE w_other.kind = "bits" ->
                IF w_other.bits.nbits <= SHIFT
                THEN Return([self EXCEPT !.bigval =
                        setitem_long_int_helper(self.bigval, w_other.bits.intval,
                                                start, stop, g)])
                ELSE Return([self EXCEPT !.bigval =
                        setitem_long_long_helper(self.bigval, w_other.bits.bigval,
                                                 start, stop, g)])
           [] w_other.kind = "int" ->
                IF int_bit_length(w_other.intval) > slice_nbits THEN Raise("ValueError")
                ELSE Return([self EXCEPT !.bigval =
                        setitem_long_long_helper(self.bigval,
                            rb_int_and_(get_long_mask(slice_nbits), w_other.intval),
                            start, stop, g)])
           [] w_other.kind = "long" ->
                IF rb_bit_length(w_other.num) > slice_nbits THEN Raise("ValueError")
                ELSE Return([self EXCEPT !.bigval =
                        setitem_long_long_helper(self.bigval,
                            rb_and_(get_long_mask(slice_nbits), w_other.num),
                            start, stop, g)])

\* the write of one bit once the value is known to be acceptable
setbit(self, index, other) ==
    IF self.nbits <= SHIFT
    THEN [self EXCEPT !.intval = OrZ(AndZ(self.intval, int_invert(int_lshift(1, index))),
                                     int_lshift(other, index))]
    ELSE [self EXCEPT !.bigval = _rbigint_setidx(self.bigval, index, other)]

\* b[index] = w_other, the index already a machine integer; returns self as
\* the call leaves it
setitem_bit(self, index, w_other) ==
    IF index >= self.nbits THEN Raise("ValueError")
    ELSE CASE w_other.kind = "bits" ->
                IF w_other.bits.nbits > 1 THEN Raise("ValueError")
                ELSE Return(setbit(self, index, w_other.bits.intval))
           [] w_other.kind = "int" ->
                IF w_other.intval < 0 \/ w_other.intval > 1 THEN Raise("ValueError")
                ELSE Return(setbit(self, index, w_other.intval))
           [] w_other.kind = "long" ->
                IF numdigits(w_other.num) > 1 THEN Raise("ValueError")
                ELSE IF digit(w_other.num, 0) < 0 \/ digit(w_other.num, 0) > 1
                THEN Raise("ValueError")
                ELSE Return(setbit(self, index, digit(w_other.num, 0)))

\* An index or a slice bound is read like a shift amount: intval of a machine
\* integer or a word-form Bits, numdigits and digit(0) of a big-form Bits,
\* toint() of a big integer.  Indices are not scaled with the digit: every
\* index below 2^SHIFT has one digit and fits the machine word.

Decoded(err, index) == [err |-> err, index |-> index]

\* w.intval, or w.bigval.digit(0) unless w.bigval has several digits
index_of_bits(w) ==
    IF w.word THEN Decoded("", w.intval)
    ELSE IF w.numdigits > 1 THEN Decoded("ValueError", 0)
    ELSE Decoded("", w.digit0)

\* w.num.toint(): OverflowError when the value does not fit the machine word
index_of_long(w) ==
    IF w.numdigits > 1 THEN Decoded("OverflowError", 0)
    ELSE Decoded("", w.sign * w.digit0)

\* the bound of a slice, in descr_getitem and descr_setitem alike
slice_bound(w) ==
    CASE w.given = "bits" -> index_of_bits(w)
      [] w.given = "int" -> Decoded("", w.intval)
      [] w.given = "long" -> index_of_long(w)

\* the index of b[index]: only a big integer is checked for its sign
getitem_index(w_index) ==
    CASE w_index.given = "bits" -> index_of_bits(w_index)
      [] w_index.given = "int" -> Decoded("", w_index.intval)
      [] w_index.given = "long" ->
           LET d == index_of_long(w_index)
           IN IF d.err = "" /\ d.index < 0 THEN Decoded("ValueError", 0) ELSE d

\* the index of b[index] = v: a machine integer and a big integer are checked
\* for their sign
setitem_index(w_index) ==
    CASE w_index.given = "bits" -> index_of_bits(w_index)
      [] w_index.given = "int" ->
           IF w_index.intval < 0 THEN Decoded("ValueError", 0)
           ELSE Decoded("", w_index.intval)
      [] w_index.given = "long" ->
           LET d == index_of_long(w_index)
           IN IF d.err = "" /\ d.index < 0 THEN Decoded("ValueError", 0) ELSE d

\* self[w_index]
descr_getitem_index(self, w_index, g) ==
    LET d == getitem_index(w_index)
    IN IF d.err # "" THEN Raise(d.err) ELSE getitem_bit(self, d.index, g)

\* self[w_start:w_stop]
descr_getitem_slice(self, w_start, w_stop) ==
    LET s == slice_bound(w_start)
        t == slice_bound(w_stop)
    IN IF s.err # "" THEN Raise(s.err)
       ELSE IF t.err # "" THEN Raise(t.err)
       ELSE getitem_slice(self, s.index, t.index)

\* self[w_index] = w_other
descr_setitem_index(self, w_index, w_other) ==
    LET d == setitem_index(w_index)
    IN IF d.err # "" THEN Raise(d.err) ELSE setitem_bit(self, d.index, w_other)

\* self[w_start:w_stop] = w_other
descr_setitem_slice(self, w_start, w_stop, w_other, g) ==
    LET s == slice_bound(w_start)
        t == slice_bound(w_stop)
    IN IF s.err # "" THEN Raise(s.err)
       ELSE IF t.err # "" THEN Raise(t.err)
       ELSE setitem_slice(self, s.index, t.index, w_other, g)

----------------------------------------------------------------------------
(* Comparison.                                                             *)

int_in_valid_range(i) == i >= 0 - MASK /\ i <= MASK

\* rbigint.int_eq
rb_int_eq(a, i) ==
    IF ~int_in_valid_range(i) THEN rb_eq(a, fromint(i))
    ELSE IF numdigits(a) > 1 THEN FALSE
    ELSE a.sign * digit(a, 0) = i

Truth(b) == IF b THEN 1 ELSE 0

\* cmp_opp: the operator that holds of ( b, a ) when opname holds of ( a, b )
cmp_opp ==
    [opname \in {"lt", "le", "eq", "ne", "gt", "ge"} |->
       CASE opname = "lt" -> "gt"
         [] opname = "le" -> "ge"
         [] opname = "eq" -> "eq"
         [] opname = "ne" -> "ne"
         [] opname = "gt" -> "lt"
         [] opname = "ge" -> "le"]

\* the digits of a and b from digit i down: -1, 0 or 1 as a's are below,
\* equal to or above b's
RECURSIVE cmp_digits(_, _, _)
cmp_digits(a, b, i) ==
    IF i < 0 THEN 0
    ELSE IF digit(a, i) < digit(b, i) THEN 0 - 1
    ELSE IF digit(a, i) > digit(b, i) THEN 1
    ELSE cmp_digits(a, b, i - 1)

\* rbigint.lt: sign, then numdigits, then the digits from the top
rb_lt(a, b) ==
    IF a.sign > b.sign THEN FALSE
    ELSE IF a.sign < b.sign THEN TRUE
    ELSE IF numdigits(a) > numdigits(b) THEN ~(b.sign > 0)
    ELSE IF numdigits(a) < numdigits(b) THEN b.sign > 0
    ELSE LET c == cmp_digits(a, b, numdigits(a) - 1) IN
         IF c < 0 THEN b.sign > 0
         ELSE IF c > 0 THEN ~(b.sign > 0)
         ELSE FALSE

\* rbigint.int_lt
rb_int_lt(a, i) ==
    IF ~int_in_valid_range(i) THEN rb_lt(a, fromint(i))
    ELSE IF a.sign > Sign(i) THEN FALSE
    ELSE IF a.sign < Sign(i) THEN TRUE
    ELSE IF numdigits(a) > 1 THEN ~(Sign(i) = 1)
    ELSE a.sign * digit(a, 0) < i

\* operator.<opname> on machine integers
iicmp(opname, a, b) ==
    CASE opname = "lt" -> a < b
      [] opname = "le" -> a <= b
      [] opname = "eq" -> a = b
      [] opname = "ne" -> a # b
      [] opname = "gt" -> a > b
      [] opname = "ge" -> a >= b

\* rbigint.<opname>: le, gt, ge and ne are derived from lt and eq
llcmp(opname, a, b) ==
    CASE opname = "lt" -> rb_lt(a, b)
      [] opname = "le" -> ~rb_lt(b, a)
      [] opname = "eq" -> rb_eq(a, b)
      [] opname = "ne" -> ~rb_eq(a, b)
      [] opname = "gt" -> rb_lt(b, a)
      [] opname = "ge" -> ~rb_lt(a, b)

\* rbigint.int_<opname>: int_le is int_eq or int_lt, int_gt its negation
licmp(opname, a, i) ==
    CASE opname = "lt" -> rb_int_lt(a, i)
      [] opname = "le" -> rb_int_eq(a, i) \/ rb_int_lt(a, i)
      [] opname = "eq" -> rb_int_eq(a, i)
      [] opname = "ne" -> ~rb_int_eq(a, i)
      [] opname = "gt" -> ~(rb_int_eq(a, i) \/ rb_int_lt(a, i))
      [] opname = "ge" -> ~rb_int_lt(a, i)

\* self <opname> w_other, a Bits<1>
descr_cmp(opname, self, w_other) ==
    IF self.nbits <= SHIFT
    THEN LET x == self.intval IN
         CASE w_other.kind = "bits" ->
                IF w_other.bits.nbits <= SHIFT
                THEN W_Bits(1, Truth(iicmp(opname, x, w_other.bits.intval)), NoBig)
                ELSE W_Bits(1, Truth(licmp(cmp_opp[opname], w_other.bits.bigval, x)), NoBig)
           [] w_other.kind = "int" ->
                W_Bits(1, Truth(iicmp(opname, x,
                                      AndZ(w_other.intval, get_int_mask(self.nbits)))), NoBig)
           [] w_other.kind = "long" ->
                W_Bits(1, Truth(licmp(cmp_opp[opname],
                                      rb_and_(get_long_mask(self.nbits), w_other.num), x)),
                       NoBig)
    ELSE LET x == self.bigval IN
         CASE w_other.kind = "bits" ->
                IF w_other.bits.nbits <= SHIFT
                THEN W_Bits(1, Truth(licmp(opname, x, w_other.bits.intval)), NoBig)
                ELSE W_Bits(1, Truth(llcmp(opname, x, w_other.bits.bigval)), NoBig)
           [] w_other.kind = "int" ->
                W_Bits(1, Truth(llcmp(opname, x, rb_int_and_(get_long_mask(self.nbits),
                                                             w_other.intval))), NoBig)
           [] w_other.kind = "long" ->
                W_Bits(1, Truth(llcmp(opname, x, rb_and_(get_long_mask(self.nbits),
                                                         w_other.num))), NoBig)

\* self == w_other, a Bits<1>
descr_eq(self, w_other) == descr_cmp("eq", self, w_other)

----------------------------------------------------------------------------
(* Shifts.  A shift amount, like a width or an index, is far below the      *)
(* platform's 2^SHIFT, so it is not scaled down with the digit: an amount   *)
(* is a record of how it was given (given, and word for a Bits in word      *)
(* form) and of what the handlers read of it: intval for a machine integer  *)
(* or a word-form Bits; sign, numdigits and digit0 for a big integer or a   *)
(* big-form Bits.  An amount of several digits is 2^SHIFT or more, above    *)
(* every width.  value is the integer the amount denotes; no handler reads  *)
(* it.                                                                      *)

Amount(kind, word, v, nd) ==
    [kind |-> "amount", given |-> kind, word |-> word, value |-> v,
     intval |-> IF kind = "int" \/ word THEN v ELSE 0,
     sign |-> IF kind = "int" \/ word THEN 0 ELSE Sign(v),
     numdigits |-> nd,
     digit0 |-> IF kind = "int" \/ word \/ nd > 1 THEN 0 ELSE Abs(v)]

\* rbigint.rshift( n ): floor( a / 2^n ), in numdigits - n / SHIFT digits
\* before it is normalised; a negative n raises ValueError in the caller
rb_rshift(a, n) ==
    IF n = 0 THEN a
    ELSE IF a.sign < 0 THEN fromlong(tolong(a) \div 2^n)
    ELSE LET wordshift == n \div SHIFT
             newsize == numdigits(a) - wordshift
             m == Magnitude(a.digits, a.size) \div 2^n
         IN IF newsize <= 0 THEN NULLRBIGINT
            ELSE _normalize(rbigint([i \in 1..newsize |-> (m \div BASE^(i - 1)) % BASE],
                                    a.sign, newsize))

\* value >> shamt for two big integers, the amount as its sign, numdigits
\* and digit( 0 )
_rbigint_rshift(value, shamt) ==
    IF value.sign = 0 \/ shamt.sign = 0 THEN value
    ELSE IF shamt.numdigits > 1 THEN NULLRBIGINT
    ELSE LET wordshift == shamt.digit0 \div SHIFT
             newsize == numdigits(value) - wordshift
             loshift == shamt.digit0 - wordshift * SHIFT
             hishift == SHIFT - loshift
             lastidx == newsize - 1
             ret == [i \in 1..newsize |->
                       IF i - 1 < lastidx
                       THEN OrZ(int_rshift(digit(value, wordshift + i - 1), loshift),
                                (digit(value, wordshift + i) * 2^hishift) % BASE) % BASE
                       ELSE int_rshift(digit(value, wordshift + i - 1), loshift) % BASE]
         IN IF newsize <= 0 THEN NULLRBIGINT
            ELSE _normalize(rbigint(ret, 1, newsize))

\* self >> w_other
descr_rshift(self, w_other) ==
    IF self.nbits <= SHIFT
    THEN LET x == self.intval IN
         CASE w_other.given = "bits" /\ w_other.word ->
                IF w_other.intval <= SHIFT
                THEN Return(W_Bits(self.nbits, int_rshift(x, w_other.intval), NoBig))
                ELSE Return(W_Bits(self.nbits, 0, NoBig))
           [] w_other.given = "bits" /\ ~w_other.word ->
                IF w_other.numdigits = 1 /\ w_other.digit0 <= SHIFT
                THEN Return(W_Bits(self.nbits, int_rshift(x, w_other.digit0), NoBig))
                ELSE Return(W_Bits(self.nbits, 0, NoBig))
           [] w_other.given = "int" ->
                IF w_other.intval < 0 THEN Raise("ValueError")
                ELSE IF w_other.intval <= SHIFT
                THEN Return(W_Bits(self.nbits, int_rshift(x, w_other.intval), NoBig))
                ELSE Return(W_Bits(self.nbits, 0, NoBig))
           [] w_other.given = "long" ->
                IF w_other.sign < 0 THEN Raise("ValueError")
                \* the shifted object is built and dropped: no return
                ELSE Return(W_Bits(self.nbits, 0, NoBig))
    ELSE LET x == self.bigval IN
         CASE w_other.given = "bits" /\ w_other.word ->
                Return(W_Bits(self.nbits, 0, rb_rshift(x, w_other.intval)))
           [] w_other.given = "bits" /\ ~w_other.word ->
                Return(W_Bits(self.nbits, 0, _rbigint_rshift(x, w_other)))
           [] w_other.given = "int" ->
                IF w_other.intval < 0 THEN Raise("ValueError")
                ELSE Return(W_Bits(self.nbits, 0, rb_rshift(x, w_other.intval)))
           [] w_other.given = "long" ->
                Return(W_Bits(self.nbits, 0, _rbigint_rshift(x, w_other)))

\* ( value << shamt ) masked to masklen bits, 0 < shamt < masklen past the
\* early returns.  The accumulator loop leaves in digit k of the result
\* digit k - wordshift of magnitude * 2^remshift.
_rbigint_lshift_maskoff(value, shamt, masklen) ==
    IF value.sign = 0 \/ shamt = 0 THEN value
    ELSE IF shamt >= masklen THEN NULLRBIGINT
    ELSE LET wordshift == shamt \div SHIFT
             remshift == shamt - wordshift * SHIFT
             oldsize == numdigits(value)
             maskbit == masklen % SHIFT
             masksize == (masklen - 1) \div SHIFT + 1
             newsize == oldsize + wordshift + 1
             m == Magnitude(value.digits, oldsize) * 2^remshift
             shifted(k) == IF k < wordshift THEN 0
                           ELSE (m \div BASE^(k - wordshift)) % BASE
         IN IF remshift = 0
            THEN LET retsize == Min(oldsize + wordshift, masksize)
                     copied == Min(wordshift + oldsize, Max(retsize, wordshift))
                     ret == [i \in 1..retsize |->
                               IF i - 1 >= wordshift /\ i - 1 < copied
                               THEN digit(value, i - 1 - wordshift) ELSE 0]
                     lastword == retsize - 1
                 IN IF copied = masksize /\ maskbit # 0
                    THEN _normalize(rbigint([ret EXCEPT ![lastword + 1] =
                                                AndZ(ret[lastword + 1], get_int_mask(maskbit))],
                                            1, retsize))
                    ELSE _normalize(rbigint(ret, 1, retsize))
            ELSE IF masksize < newsize
            THEN LET retsize == masksize
                     ret == [i \in 1..retsize |-> shifted(i - 1)]
                     lastword == retsize - 1
                     mask == get_int_mask(maskbit)
                 IN IF maskbit # 0 /\ ret[lastword + 1] >= mask
                    THEN _normalize(rbigint([ret EXCEPT ![lastword + 1] =
                                                AndZ(ret[lastword + 1], mask)],
                                            1, retsize))
                    ELSE _normalize(rbigint(ret, 1, retsize))
            ELSE LET retsize == newsize
                     accum == m \div BASE^oldsize
                     ret == [i \in 1..retsize |->
                               IF i < retsize THEN shifted(i - 1)
                               ELSE IF masksize = newsize /\ maskbit # 0
                               THEN AndZ(accum, get_int_mask(maskbit)) % BASE
                               ELSE accum % BASE]
                 IN _normalize(rbigint(ret, 1, retsize))

\* ( x & mask( nbits - shamt ) ) << shamt of the word form
lshift_word(self, shamt) ==
    W_Bits(self.nbits,
           int_lshift(AndZ(self.intval, get_int_mask(self.nbits - shamt)), shamt), NoBig)

\* the big form is shifted by a negative machine integer: the assertion
\* shamt > 0 of _rbigint_lshift_maskoff does not hold
lshift_undefined(self, w_other) ==
    self.nbits > SHIFT /\ w_other.given = "int" /\ w_other.intval < 0 /\ self.bigval.sign # 0

\* self << w_other; g is what the undefined shift yields
descr_lshift(self, w_other, g) ==
    IF self.nbits <= SHIFT
    THEN CASE w_other.given = "bits" /\ w_other.word ->
                IF w_other.intval >= self.nbits THEN Return(W_Bits(self.nbits, 0, NoBig))
                ELSE Return(lshift_word(self, w_other.intval))
           [] w_other.given = "bits" /\ ~w_other.word ->
                IF w_other.numdigits = 1 /\ w_other.digit0 <= self.nbits
                THEN Return(lshift_word(self, w_other.digit0))
                ELSE Return(W_Bits(self.nbits, 0, NoBig))
           [] w_other.given = "int" ->
                IF w_other.intval < 0 THEN Raise("ValueError")
                ELSE IF w_other.intval >= self.nbits
                THEN Return(W_Bits(self.nbits, 0, NoBig))
                ELSE Return(lshift_word(self, w_other.intval))
           [] w_other.given = "long" ->
                IF w_other.sign < 0 THEN Raise("ValueError")
                ELSE IF w_other.numdigits = 1 /\ w_other.digit0 <= self.nbits
                THEN Return(lshift_word(self, w_other.digit0))
                ELSE Return(W_Bits(self.nbits, 0, NoBig))
    ELSE LET x == self.bigval IN
         CASE w_other.given \in {"bits", "int"} /\ (w_other.given = "int" \/ w_other.word) ->
                IF lshift_undefined(self, w_other)
                THEN IF g < 0 THEN Raise("AssertionError")
                     ELSE Return(W_Bits(self.nbits, 0, fromlong(g)))
                ELSE Return(W_Bits(self.nbits, 0,
                                   _rbigint_lshift_maskoff(x, w_other.intval, self.nbits)))
           [] OTHER ->
                IF w_other.numdigits > 1 THEN Return(W_Bits(self.nbits, 0, NULLRBIGINT))
                ELSE Return(W_Bits(self.nbits, 0,
                                   _rbigint_lshift_maskoff(x, w_other.digit0, self.nbits)))

----------------------------------------------------------------------------
(* Unary operators and value access.                                       *)

\* bool( self ): intval != 0, or bigval.sign != 0
descr_bool(self) ==
    IF self.nbits <= SHIFT THEN self.intval # 0 ELSE self.bigval.sign # 0

\* ~self
descr_invert(self) ==
    IF self.nbits <= SHIFT
    THEN W_Bits(self.nbits, intmask(get_int_mask(self.nbits) - self.intval), NoBig)
    ELSE W_Bits(self.nbits, 0, rb_sub(get_long_mask(self.nbits), self.bigval))

\* what a call that returns an integer does
ReturnInt(v) == [err |-> "", val |-> W_Bits(0, 0, NoBig), num |-> v]

\* x.int() reads the digit of bit nbits - 1 although the digit list ends
\* below it: the guard is wordpos > numdigits(), and lets wordpos = numdigits()
\* through
int_undefined(self) ==
    /\ self.nbits > SHIFT
    /\ LET wordpos == (self.nbits - 1) \div SHIFT IN
       /\ ~(wordpos > numdigits(self.bigval))
       /\ wordpos >= Len(self.bigval.digits)

\* self.int(); g is what the undefined read yields
descr_int(self, g) ==
    LET index == self.nbits - 1 IN
    IF self.nbits <= SHIFT
    THEN LET intval == self.intval
             msb == AndZ(int_rshift(intval, index), 1)
         IN ReturnInt(intmask(intval - msb * get_int_mask(self.nbits) - msb))
    ELSE LET bigval == self.bigval
             wordpos == index \div SHIFT
             bitpos == index - wordpos * SHIFT
             word == IF int_undefined(self) THEN g ELSE digit(bigval, wordpos)
             msb == AndZ(int_rshift(word, bitpos), 1)
             carry == bitpos + 1 = SHIFT
             wordpos1 == IF carry THEN wordpos + 1 ELSE wordpos
             bitpos1 == IF carry THEN 0 ELSE bitpos + 1
             shift == rbigint(Zeros(wordpos1) \o <<_store_digit(2^bitpos1)>>, 1, wordpos1 + 1)
         IN IF wordpos > numdigits(bigval) THEN ReturnInt(descr_uint(self))
            ELSE IF word < 0 THEN Raise("IndexError")
            ELSE IF msb = 0 THEN ReturnInt(tolong(bigval))
            ELSE ReturnInt(tolong(rb_sub(bigval, shift)))

\* intobject._hash_int and longobject._hash_long: the hash of an integer, the
\* same for a machine integer and a big integer of the same value
HASH_MODULUS == 2^SHIFT - 1

_hash_int(a) ==
    LET h == Sign(a) * (Abs(a) % HASH_MODULUS) IN IF h = 0 - 1 THEN 0 - 2 ELSE h

_hash_long(v) == _hash_int(tolong(v))

\* hash( self ): one round of the tuple hash over ( nbits, payload ), in
\* machine arithmetic
descr_hash(self) ==
    LET hash_nbits == _hash_int(self.nbits)
        hash_value == IF self.nbits > SHIFT THEN _hash_long(self.bigval)
                      ELSE _hash_int(self.intval)
        x0 == intmask(3430008)
        x1 == intmask(XorZ(x0, hash_nbits) * intmask(1000003))
        x2 == intmask(XorZ(x1, hash_value) * intmask(1000003 + 82520 + 1 + 1))
    IN intmask(x2 + intmask(97531))

----------------------------------------------------------------------------
(* Registers: a Bits with a shadow payload, next_intval or next_bigval.    *)

W_BitsWithNext(nbits, intval, bigval, next_intval, next_bigval) ==
    [cls |-> "BitsWithNext", nbits |-> nbits, intval |-> intval, bigval |-> bigval,
     next_intval |-> next_intval, next_bigval |-> next_bigval]

\* what self <<= w_other or self._flip() does: it raises err, or returns val
\* (the None of _flip is the null object) and leaves the receiver as recv;
\* same says that the object returned is the receiver
Outcome(err, val, recv, same) == [err |-> err, val |-> val, recv |-> recv, same |-> same]

\* a <<= that stores the right-hand side whatever its width
descr_ilshift_anywidth(self, w_other) ==
    IF w_other.kind # "bits" THEN Outcome("TypeError", W_Bits(0, 0, NoBig), self, FALSE)
    ELSE IF self.cls = "Bits"
    THEN IF self.nbits <= SHIFT
         THEN Outcome("", W_BitsWithNext(self.nbits, self.intval, NoBig,
                                         w_other.bits.intval, NoBig), self, FALSE)
         ELSE Outcome("", W_BitsWithNext(self.nbits, self.intval, self.bigval, 0,
                                         _rbigint_maskoff_high(w_other.bits.bigval,
                                                               self.nbits)), self, FALSE)
    ELSE LET stored ==
               IF self.nbits <= SHIFT
               THEN [self EXCEPT !.next_intval = w_other.bits.intval]
               ELSE [self EXCEPT !.next_bigval =
                        _rbigint_maskoff_high(w_other.bits.bigval, self.nbits)]
         IN Outcome("", stored, stored, TRUE)

\* self <<= w_other: a plain Bits returns a new register and is left as it
\* is, a register stores the shadow and returns itself
descr_ilshift(self, w_other) ==
    IF w_other.kind # "bits" THEN Outcome("TypeError", W_Bits(0, 0, NoBig), self, FALSE)
    ELSE IF self.nbits # w_other.bits.nbits
    THEN Outcome("ValueError", W_Bits(0, 0, NoBig), self, FALSE)
    ELSE IF self.cls = "Bits"
    THEN IF self.nbits <= SHIFT
         THEN Outcome("", W_BitsWithNext(self.nbits, self.intval, NoBig,
                                         w_other.bits.intval, NoBig), self, FALSE)
         ELSE Outcome("", W_BitsWithNext(self.nbits, self.intval, self.bigval, 0,
                                         _rbigint_maskoff_high(w_other.bits.bigval,
                                                               self.nbits)), self, FALSE)
    ELSE LET stored ==
               IF self.nbits <= SHIFT
               THEN [self EXCEPT !.next_intval = w_other.bits.intval]
               ELSE [self EXCEPT !.next_bigval =
                        _rbigint_maskoff_high(w_other.bits.bigval, self.nbits)]
         IN Outcome("", stored, stored, TRUE)

\* a _flip() that hands the shadow over: the slot is cleared once committed
descr_flip_clearing(self) ==
    IF self.cls = "Bits" THEN Outcome("TypeError", W_Bits(0, 0, NoBig), self, FALSE)
    ELSE IF self.nbits <= SHIFT
    THEN Outcome("", W_Bits(0, 0, NoBig),
                 [self EXCEPT !.intval = self.next_intval, !.next_intval = 0], FALSE)
    ELSE Outcome("", W_Bits(0, 0, NoBig),
                 [self EXCEPT !.bigval = _rbigint_maskoff_high(self.next_bigval, self.nbits),
                              !.next_bigval = fromint(0)],
                 FALSE)

\* self._flip(): the shadow becomes the current payload
descr_flip(self) ==
    IF self.cls = "Bits" THEN Outcome("TypeError", W_Bits(0, 0, NoBig), self, FALSE)
    ELSE IF self.nbits <= SHIFT
    THEN Outcome("", W_Bits(0, 0, NoBig), [self EXCEPT !.intval = self.next_intval], FALSE)
    ELSE Outcome("", W_Bits(0, 0, NoBig),
                 [self EXCEPT !.bigval = _rbigint_maskoff_high(self.next_bigval, self.nbits)],
                 FALSE)

----------------------------------------------------------------------------
(* The state machine: one variable x bound to a Bits object, and the record *)
(* of the call in progress on it.  A call is made when no call is recorded *)
(* (last.op = "idle"); its record is then dropped (Done), or the object it *)
(* returned is bound to x (Assign).  steps counts the operations that made *)
(* the object bound to x out of a freshly constructed one.                 *)

VARIABLES x, last, steps, heap, objs, call

\* the object and its call; the arrays shared between named objects (below)
bound == <<x, last, steps>>
sharing == <<heap, objs, call>>
vars == <<x, last, steps, heap, objs, call>>

\* Longest chain of operations applied to a freshly constructed object.
MaxSteps == 2

Widths == 1..MaxBits

NewBits(n, v) == descr_new(n, W_Long(v)).val

\* 0101...01 in w bits
RECURSIVE Alt(_)
Alt(w) == IF w <= 0 THEN 0 ELSE IF w = 1 THEN 1 ELSE 1 + 4 * Alt(w - 2)

Signed(ms) == ms \cup {0 - m : m \in ms}

\* operands of the binary operators and comparisons of a Bits of n bits:
\* machine integers, big integers around 2^n, Bits of the same width, of
\* word widths and of big widths
OperandsFor ==
    [n \in 1..(MaxBits + 1) |->
       {W_Int(v) : v \in {MinInt, -1, 0, 1, 2, MaxInt}}
          \cup {W_Long(v) : v \in Signed({1, 5, 2^n - 1, 2^n, 2^n + 1})}
          \cup {W_Obj(NewBits(n, v)) : v \in {0, 1, Alt(n), 2^n - 1}}
          \cup {W_Obj(NewBits(1, 1)), W_Obj(NewBits(SHIFT, MASK)),
                W_Obj(NewBits(SHIFT + 1, BASE + 1)),
                W_Obj(NewBits(MaxBits, Alt(MaxBits))),
                W_Obj(NewBits(MaxBits, 2^MaxBits - 1))}]

\* values written into a slice of w bits: the extremes of w bits, a value of
\* two digits, a mixed pattern, the first value that does not fit, and
\* negative values, the first whose magnitude does not fit among them
SliceValues(w) ==
    {0, 1, BASE + 1, Alt(w), 2^w - 1, 2^w, -1, 0 - 2^(w - 1), (0 - 2^(w - 1)) - 1,
     0 - 2^w}

\* operands written into a slice of w bits: machine integers, big integers,
\* Bits of w bits, a narrower and a wider Bits
SliceOperands ==
    [w \in 1..(MaxBits + 1) |->
       {W_Int(v) : v \in SliceValues(w) \cap MachineInts}
          \cup {W_Long(v) : v \in SliceValues(w)}
          \cup {W_Obj(NewBits(w, v)) : v \in {0, 1, (BASE + 1) % 2^w, Alt(w), 2^w - 1}}
          \cup (IF w > 1 THEN {W_Obj(NewBits(w - 1, 1))} ELSE {})
          \cup {W_Obj(NewBits(w + 1, 2^w))}]

\* values a new Bits of n bits is constructed from
NewOperands ==
    [n \in 1..MaxBits |->
       {W_Int(v) : v \in {MinInt, -1, 0, 1, MaxInt}}
          \cup {W_Long(v) : v \in Signed({1, 2^n - 1, 2^n, 2^n + 1})}]

\* what an undefined read may yield: a digit, or -1 for a raised IndexError
Garbage(undefined) == IF undefined THEN (0 - 1)..MASK ELSE {0}

NoOperand == W_Int(0)
NoObject == W_Bits(0, 0, NoBig)

Call(op, self, other, start, stop, out) ==
    [op |-> op, self |-> self, other |-> other, start |-> start, stop |-> stop,
     err |-> out.err, val |-> out.val,
     num |-> IF "num" \in DOMAIN out THEN out.num ELSE 0,
     index |-> <<>>]

\* a call with an index or a slice: start and stop are the integers the
\* index objects denote, index the objects as they were given
CallAt(op, self, other, index, out) ==
    [Call(op, self, other, index[1].value,
          IF Len(index) > 1 THEN index[2].value ELSE 0, out) EXCEPT !.index = index]

Idle == Call("idle", NoObject, NoOperand, 0, 0, Return(NoObject))

\* a write may be made on x
Writable == last.op = "idle" /\ steps < MaxSteps

\* a call that reads x may be made.  No handler but <<= and _flip() reads
\* the class or the shadow of its receiver, so a register answers every
\* reading call as the plain Bits of its current payload does: the reading
\* calls are made on plain objects.
Ready == Writable /\ x.cls = "Bits"

\* Widest Bits constructed from every value of its range.
ExhaustiveBits == 5

\* values the object bound to x is first constructed from: every value of a
\* narrow width; for a wider one the extremes, a value of two digits, a mixed
\* pattern, and the top bit alone and over a value of two digits, in the
\* lowest digits and one digit up
InitValues(n) ==
    IF n <= ExhaustiveBits THEN 0..(2^n - 1)
    ELSE {0, 1, BASE + 1, Alt(n), 2^(n - 1), 2^(n - 1) + BASE + 1,
          2^(n - 1) + BASE * (BASE + 1), 2^n - 1}

NoCall ==
    [op |-> "none", target |-> "p", val |-> NoObject, shared |-> FALSE,
     n |-> 0, heap |-> <<>>, objs |-> <<>>]

\* the state of a program that holds no object by name
Unshared == heap = <<>> /\ objs = <<>> /\ call = NoCall

Init ==
    /\ Unshared
    /\ \E n \in Widths :
          \E v \in InitValues(n) : x = NewBits(n, v)
    /\ last = Idle
    /\ steps = 0

\* x = Bits( n, value ), the value an integer or the object bound to x.  A
\* Bits made from an integer does not depend on the state, so these are
\* made from the first objects only: the states reached are the same.
New ==
    /\ last.op = "idle"
    /\ \E n \in Widths :
          \E w \in (IF steps = 0 THEN NewOperands[n] ELSE {}) \cup {W_Obj(x)} :
             LET out == descr_new(n, w) IN
             /\ last' = Call("new", NoObject, w, n, 0, out)
             /\ x' = IF out.err = "" THEN out.val ELSE x
             /\ steps' = IF out.err # "" THEN steps
                         ELSE IF w.kind = "bits" THEN Min(steps + 1, MaxSteps)
                         ELSE 0
    /\ UNCHANGED sharing

\* x <op> w_other
BinOp ==
    /\ Ready
    /\ \E op \in ArithOps \cup LogicOps, w \in OperandsFor[x.nbits] :
          /\ last' = Call(op, x, w, 0, 0, descr_binop(op, x, w))
          /\ UNCHANGED <<x, steps, sharing>>

\* x == w_other
Eq ==
    /\ Ready
    /\ \E w \in OperandsFor[x.nbits] :
          /\ last' = Call("eq", x, w, 0, 0, Return(descr_eq(x, w)))
          /\ UNCHANGED <<x, steps, sharing>>

\* x < w_other, x <= w_other, x != w_other, x > w_other, x >= w_other
Cmp ==
    /\ Ready
    /\ \E opname \in {"lt", "le", "ne", "gt", "ge"}, w \in OperandsFor[x.nbits] :
          /\ last' = Call(opname, x, w, 0, 0, Return(descr_cmp(opname, x, w)))
          /\ UNCHANGED <<x, steps, sharing>>

\* an index of several digits, above every width
Huge == 2^(MaxBits + 2)

\* indices into a Bits of n bits: the machine integers from -1 to MaxBits;
\* big integers below 0, in range, at n and of several digits; word-form
\* and big-form Bits in range and at n, and a big-form Bits of several digits
Indices(n) ==
    {Amount("int", FALSE, i, 1) : i \in (0 - 1)..MaxBits}
       \cup {Amount("long", FALSE, i, 1) : i \in {0 - 1, 0, n}}
       \cup {Amount("long", FALSE, Huge, 2), Amount("long", FALSE, 0 - Huge, 2)}
       \cup {Amount("bits", TRUE, i, 1) : i \in {0, n}}
       \cup {Amount("bits", FALSE, i, 1) : i \in {n - 1, n}}
       \cup {Amount("bits", FALSE, Huge, 2)}

\* slices of a Bits of n bits: machine integers from 0 to MaxBits + 1; a
\* negative start; big integers and Bits in range, past n and of several
\* digits
Slices(n) ==
    {<<Amount("int", FALSE, start, 1), Amount("int", FALSE, stop, 1)>> :
        start \in 0..(MaxBits - 1), stop \in 1..(MaxBits + 1)}
       \cup {<<Amount("int", FALSE, 0 - 1, 1), Amount("int", FALSE, 1, 1)>>,
             <<Amount("int", FALSE, 0, 1), Amount("int", FALSE, 0 - 1, 1)>>,
             <<Amount("long", FALSE, 0 - 1, 1), Amount("long", FALSE, 1, 1)>>,
             <<Amount("long", FALSE, 0, 1), Amount("long", FALSE, n, 1)>>,
             <<Amount("long", FALSE, 0, 1), Amount("long", FALSE, Huge, 2)>>,
             <<Amount("bits", TRUE, 0, 1), Amount("bits", TRUE, 1, 1)>>,
             <<Amount("bits", FALSE, 0, 1), Amount("bits", FALSE, n + 1, 1)>>,
             <<Amount("bits", TRUE, 0, 1), Amount("bits", FALSE, Huge, 2)>>}

\* the bounds are decoded and the range check accepts them
SliceAccepted(self, s) ==
    /\ slice_bound(s[1]).err = "" /\ slice_bound(s[2]).err = ""
    /\ ~check_slice_range_raises(self, slice_bound(s[1]).index, slice_bound(s[2]).index)

\* x[w_index]
GetBit ==
    /\ Ready
    /\ \E w \in Indices(x.nbits) :
          \E g \in Garbage(getitem_index(w).err = ""
                              /\ getitem_undefined(x, getitem_index(w).index)) :
             /\ last' = CallAt("getbit", x, NoOperand, <<w>>, descr_getitem_index(x, w, g))
             /\ UNCHANGED <<x, steps, sharing>>

\* x[w_start:w_stop]
GetSlice ==
    /\ Ready
    /\ \E s \in Slices(x.nbits) :
          /\ last' = CallAt("getslice", x, NoOperand, s,
                            descr_getitem_slice(x, s[1], s[2]))
          /\ UNCHANGED <<x, steps, sharing>>

\* The full operand sets are written into the first objects through
\* machine-integer indices.  Every other write takes the two extremes of the
\* width and the part written itself: a write on a register or through an
\* index of another kind (descr_setitem reads neither the class of self nor,
\* once the index is decoded, its kind), and a write on an object that an
\* operation has made.
ExtremesOnly(w_index) == x.cls # "Bits" \/ w_index.given # "int" \/ steps > 0
Extremes(w) == {W_Long(0), W_Long(2^w - 1)}

\* x[index] = w_other; the operands include the bit x[index] itself
SetBit ==
    /\ Writable
    /\ \E i \in Indices(x.nbits) :
          \E w \in IF setitem_index(i).err # "" \/ setitem_index(i).index >= x.nbits
                   THEN {NoOperand}
                   ELSE (IF ExtremesOnly(i) THEN Extremes(1) ELSE SliceOperands[1])
                          \cup {W_Obj(getitem_bit(x, setitem_index(i).index, 0).val)} :
             LET out == descr_setitem_index(x, i, w) IN
             /\ last' = CallAt("setbit", x, w, <<i>>, out)
             /\ x' = IF out.err = "" THEN out.val ELSE x
             /\ steps' = IF out.err = "" THEN steps + 1 ELSE steps
    /\ UNCHANGED sharing

\* x[start:stop] = w_other; the operands include the slice x[start:stop] itself
SetSlice ==
    /\ Writable
    /\ \E s \in Slices(x.nbits) :
          \E w \in IF ~SliceAccepted(x, s) THEN {NoOperand}
                   ELSE (IF ExtremesOnly(s[1]) THEN Extremes(s[2].value - s[1].value)
                         ELSE SliceOperands[s[2].value - s[1].value])
                          \cup {W_Obj(descr_getitem_slice(x, s[1], s[2]).val)} :
             \E g \in Garbage(SliceAccepted(x, s)
                                 /\ setitem_slice_undefined(x, s[1].value, s[2].value, w)) :
                LET out == descr_setitem_slice(x, s[1], s[2], w, g) IN
                /\ last' = CallAt("setslice", x, w, s, out)
                /\ x' = IF out.err = "" THEN out.val ELSE x
                /\ steps' = IF out.err = "" THEN steps + 1 ELSE steps
    /\ UNCHANGED sharing

\* shift amounts for a Bits of n bits: every value from 0 to n + 1 in each of
\* the four kinds, a negative machine integer and big integer, and big
\* integers and a big-form Bits of several digits
ShiftAmounts(n) ==
    {Amount("int", FALSE, s, 1) : s \in (0 - 1)..(n + 1)}
       \cup {Amount("long", FALSE, s, 1) : s \in (0 - 1)..(n + 1)}
       \cup {Amount("bits", TRUE, s, 1) : s \in 0..(n + 1)}
       \cup {Amount("bits", FALSE, s, 1) : s \in 0..(n + 1)}
       \cup {Amount("long", FALSE, 2^(MaxBits + 2), 2),
             Amount("long", FALSE, 0 - 2^(MaxBits + 2), 2),
             Amount("bits", FALSE, 2^(MaxBits + 2), 2)}

\* x >> w_other
RShift ==
    /\ Ready
    /\ \E a \in ShiftAmounts(x.nbits) :
          /\ last' = Call("rshift", x, a, 0, 0, descr_rshift(x, a))
          /\ UNCHANGED <<x, steps, sharing>>

\* x << w_other
LShift ==
    /\ Ready
    /\ \E a \in ShiftAmounts(x.nbits) :
          \E g \in Garbage(lshift_undefined(x, a)) :
             /\ last' = Call("lshift", x, a, 0, 0, descr_lshift(x, a, g))
             /\ UNCHANGED <<x, steps, sharing>>

\* ~x
Invert ==
    /\ Ready
    /\ last' = Call("invert", x, NoOperand, 0, 0, Return(descr_invert(x)))
    /\ UNCHANGED <<x, steps, sharing>>

\* x.int()
ToInt ==
    /\ Ready
    /\ \E g \in Garbage(int_undefined(x)) :
          /\ last' = Call("int", x, NoOperand, 0, 0, descr_int(x, g))
          /\ UNCHANGED <<x, steps, sharing>>

\* bool( x )
Bool ==
    /\ Ready
    /\ last' = Call("bool", x, NoOperand, 0, 0, ReturnInt(Truth(descr_bool(x))))
    /\ UNCHANGED <<x, steps, sharing>>

\* hash( x )
Hash ==
    /\ Ready
    /\ last' = Call("hash", x, NoOperand, 0, 0, ReturnInt(descr_hash(x)))
    /\ UNCHANGED <<x, steps, sharing>>

\* Longest chain of _flip() applied to a register past MaxSteps.
MaxRegisterSteps == 1

\* a register with the current value c and the shadow v
Register(n, c, v) == descr_ilshift(NewBits(n, c), W_Obj(NewBits(n, v))).val

\* a Bits of n bits as Bits<n>( 0 ) | r leaves it for a negative big integer r
OutOfRange(n) == descr_binop("or", NewBits(n, 0), W_Long(0 - (BASE + 1))).val

\* right-hand sides of x <<= w: a Bits of the width of x, a register whose
\* shadow differs from its current value, a Bits that | left out of range,
\* a Bits of another width and an integer
ILShiftOperands ==
    {W_Obj(NewBits(x.nbits, 2^(x.nbits) - 1)),
     W_Obj(Register(x.nbits, Alt(x.nbits), 2^(x.nbits) - 1 - Alt(x.nbits))),
     W_Obj(OutOfRange(x.nbits)),
     W_Obj(NewBits(x.nbits + 1, 1)), W_Int(1)}

\* _flip() may be called where a write may be made, and on a register for
\* MaxRegisterSteps more
RegisterReady ==
    /\ last.op = "idle"
    /\ IF x.cls = "Bits" THEN steps < MaxSteps ELSE steps < MaxSteps + MaxRegisterSteps

\* x <<= w_other
ILShift ==
    /\ Writable
    /\ \E w \in ILShiftOperands :
          LET out == descr_ilshift(x, w) IN
          /\ last' = Call("ilshift", x, w, 0, 0, out)
          /\ x' = IF out.err = "" THEN out.val ELSE x
          /\ steps' = IF out.err = "" THEN steps + 1 ELSE steps
    /\ UNCHANGED sharing

\* x._flip()
Flip ==
    /\ RegisterReady
    /\ LET out == descr_flip(x) IN
       /\ last' = Call("flip", x, NoOperand, 0, 0, out)
       /\ x' = out.recv
       /\ steps' = IF out.err = "" THEN steps + 1 ELSE steps
    /\ UNCHANGED sharing

\* the call is over and its record dropped
Done ==
    /\ last.op # "idle"
    /\ last' = Idle
    /\ UNCHANGED <<x, steps, sharing>>

\* x = <the object the call returned>
Assign ==
    /\ last.op \notin {"idle", "new", "setbit", "setslice", "int", "bool", "hash",
                       "ilshift", "flip"}
    /\ last.err = ""
    /\ x' = last.val
    /\ last' = Idle
    /\ steps' = steps + 1
    /\ UNCHANGED sharing

Next ==
    \/ New \/ BinOp \/ Eq \/ Cmp \/ GetBit \/ GetSlice \/ SetBit \/ SetSlice
    \/ RShift \/ LShift \/ Invert \/ ToInt \/ Bool \/ Hash
    \/ ILShift \/ Flip
    \/ Done \/ Assign

Spec == Init /\ [][Next]_vars

----------------------------------------------------------------------------
(* Sharing of digit arrays.                                                *)
(* An rbigint is held by reference: the bigval of a copy is the bigval of  *)
(* its original, and a helper that "returns value" hands its argument on.  *)
(* heap is the sequence of the arrays allocated so far and an address is   *)
(* an index into it; objs binds each holder to an object whose bigval and  *)
(* next_bigval are addresses; call records the last operation with the     *)
(* heap and the objects as they were before it.                            *)

Holders == {"p", "q"}

\* Longest chain of operations on the holders.
MaxSharingSteps == 3

\* None in a bigval slot, and the address of the global NULLRBIGINT
NoRef == 0
NullRef == 1

\* the object o with the arrays its slots refer to
Val(hp, o) ==
    [o EXCEPT !.bigval = IF o.bigval = NoRef THEN NoBig ELSE hp[o.bigval],
              !.next_bigval = IF o.next_bigval = NoRef THEN NoBig
                              ELSE hp[o.next_bigval]]

\* "return value": the heap as it is and the address handed on
returned(hp, value) == [heap |-> hp, ref |-> value]

\* ret = value: the array of value itself, no new list
same_rbigint(hp, value) == [heap |-> hp, ref |-> value]

\* ret = rbigint( value._digits[:size], 1, size ), and the other lists a
\* helper builds by slicing, concatenation or [NULLDIGIT]*size: a new array
\* at an address no object holds
new_rbigint(hp, value) == [heap |-> Append(hp, hp[value]), ref |-> Len(hp) + 1]

\* ret.setdigit(...), ret._digits[i] = ..., ret._normalize(): the writes of a
\* helper go into the array at ret and leave it as r
written(hp, ret, r) == [heap |-> [hp EXCEPT ![ret] = r], ref |-> ret]

\* a helper builds ret from value, fills it in and returns it
built(hp, value, r) ==
    LET ret == new_rbigint(hp, value) IN written(ret.heap, ret.ref, r)

maskoff_high_at(hp, value, masklen) ==
    IF hp[value].sign = 0 THEN returned(hp, value)
    ELSE IF (masklen - 1) \div SHIFT + 1 > numdigits(hp[value]) THEN returned(hp, value)
    ELSE built(hp, value, _rbigint_maskoff_high(hp[value], masklen))

rshift_maskoff_at(hp, value, shamt, masklen) ==
    IF hp[value].sign = 0 THEN returned(hp, value)
    ELSE IF shamt = 0 THEN maskoff_high_at(hp, value, masklen)
    ELSE IF numdigits(hp[value]) <= shamt \div SHIFT THEN returned(hp, NullRef)
    ELSE built(hp, value, _rbigint_rshift_maskoff(hp[value], shamt, masklen))

\* the three "return value" of _rbigint_setidx
setidx_returns_value(value, index, other) ==
    LET wordpos == index \div SHIFT
        shift == int_lshift(1, index - wordpos * SHIFT)
    IN IF wordpos >= numdigits(value) THEN other = 0
       ELSE IF other = 1 THEN AndZ(digit(value, wordpos), shift) # 0
       ELSE AndZ(digit(value, wordpos), shift) = 0

setidx_at(hp, value, index, other) ==
    IF setidx_returns_value(hp[value], index, other) THEN returned(hp, value)
    ELSE built(hp, value, _rbigint_setidx(hp[value], index, other))

RECURSIVE long_long_returns_value(_, _, _, _)
RECURSIVE long_int_returns_value(_, _, _, _)

\* setitem_long_long_helper returns value only through setitem_long_int_helper
long_long_returns_value(value, other0, start, stop) ==
    IF numdigits(other0) <= 1
    THEN long_int_returns_value(value, digit(other0, 0), start, stop)
    ELSE IF other0.sign < 0
            /\ numdigits(rb_and_(other0, get_long_mask(stop - start))) = 1
    THEN long_int_returns_value(value,
            digit(rb_and_(other0, get_long_mask(stop - start)), 0), start, stop)
    ELSE FALSE

\* "if not other: return value" of setitem_long_int_helper
long_int_returns_value(value, other0, start, stop) ==
    IF other0 < 0 /\ ~(stop - start < SHIFT)
    THEN long_long_returns_value(value,
            rb_int_and_(get_long_mask(stop - start), other0), start, stop)
    ELSE LET other == IF other0 < 0 THEN AndZ(other0, get_int_mask(stop - start))
                      ELSE other0
         IN start \div SHIFT >= numdigits(value) /\ other = 0

\* other is only read: other.lshift( start ) and other.and_( mask ) bind the
\* name to a new rbigint, so the source comes by value
setitem_long_long_at(hp, value, other0, start, stop, g) ==
    IF long_long_returns_value(hp[value], other0, start, stop) THEN returned(hp, value)
    ELSE built(hp, value, setitem_long_long_helper(hp[value], other0, start, stop, g))

setitem_long_int_at(hp, value, other0, start, stop, g) ==
    IF long_int_returns_value(hp[value], other0, start, stop) THEN returned(hp, value)
    ELSE built(hp, value, setitem_long_int_helper(hp[value], other0, start, stop, g))

\* self.bigval = <helper>( self.bigval, ... ) of an accepted slice write on a
\* big-form self
setitem_slice_at(hp, self, start, stop, w_other, g) ==
    LET slice_nbits == stop - start IN
    CASE w_other.kind = "bits" ->
           IF w_other.bits.nbits <= SHIFT
           THEN setitem_long_int_at(hp, self.bigval, w_other.bits.intval, start, stop, g)
           ELSE setitem_long_long_at(hp, self.bigval, w_other.bits.bigval, start, stop, g)
      [] w_other.kind = "int" ->
           setitem_long_long_at(hp, self.bigval,
               rb_int_and_(get_long_mask(slice_nbits), w_other.intval), start, stop, g)
      [] w_other.kind = "long" ->
           setitem_long_long_at(hp, self.bigval,
               rb_and_(get_long_mask(slice_nbits), w_other.num), start, stop, g)

\* the object a word-form result is, no array behind it
WordObject(b) == [b EXCEPT !.bigval = NoRef, !.next_bigval = NoRef]

\* the record of an operation on the holder target: val is the object the
\* digit-level model says the operation leaves or returns
Made(op, target, val, shared) ==
    [op |-> op, target |-> target, val |-> val, shared |-> shared,
     n |-> call.n + 1, heap |-> heap, objs |-> objs]

SharingWidths == {SHIFT + 1, 2 * SHIFT + 1}

\* p = Bits( n, v ); q = Bits( n, 1 ) of the wider form: each with an array
\* of its own
SharingInit ==
    /\ \E n \in {2 * SHIFT + 1} :
          \E v \in {0, BASE + 1, 2^n - 1} :
             /\ heap = <<NULLRBIGINT, NewBits(n, v).bigval, NewBits(n, 1).bigval>>
             /\ objs = [h \in Holders |->
                          [W_Bits(n, 0, NoBig) EXCEPT
                              !.bigval = IF h = "p" THEN 2 ELSE 3,
                              !.next_bigval = NoRef]]
    /\ call = [NoCall EXCEPT !.heap = heap, !.objs = objs]
    /\ x = NewBits(1, 0)
    /\ last = Idle
    /\ steps = 0

SharingReady == call.n < MaxSharingSteps

\* d = s.clone()
Clone ==
    /\ SharingReady
    /\ \E s \in Holders, d \in Holders :
          /\ d # s
          /\ objs' = [objs EXCEPT ![d] = objs[s]]
          /\ heap' = heap
          /\ call' = Made("copy", d, Val(heap, objs[s]), FALSE)
    /\ UNCHANGED bound

\* d = Bits( n, s ) for a big-form s and a big n
Construct ==
    /\ SharingReady
    /\ \E s \in Holders, d \in Holders :
          /\ objs[s].nbits > SHIFT
          /\ \E n \in SharingWidths :
                LET res == maskoff_high_at(heap, objs[s].bigval, n) IN
                /\ heap' = res.heap
                /\ objs' = [objs EXCEPT ![d] =
                              [W_Bits(n, 0, NoBig) EXCEPT !.bigval = res.ref,
                                                          !.next_bigval = NoRef]]
                /\ call' = Made("new", d,
                                descr_new(n, W_Obj(Val(heap, objs[s]))).val, FALSE)
    /\ UNCHANGED bound

\* d = s[start:stop]
Part ==
    /\ SharingReady
    /\ \E s \in Holders, d \in Holders :
          \E start \in {0, SHIFT}, stop \in {SHIFT + 1, objs[s].nbits} :
             LET self == objs[s]
                 slice_nbits == stop - start
                 out == getitem_slice(Val(heap, self), start, stop)
                 res == rshift_maskoff_at(heap, self.bigval, start, slice_nbits)
             IN /\ out.err = ""
                /\ IF self.nbits <= SHIFT \/ slice_nbits <= SHIFT
                   THEN /\ heap' = heap
                        /\ objs' = [objs EXCEPT ![d] = WordObject(out.val)]
                   ELSE /\ heap' = res.heap
                        /\ objs' = [objs EXCEPT ![d] =
                                      [WordObject(out.val) EXCEPT !.bigval = res.ref]]
                /\ call' = Made("getslice", d, out.val, FALSE)
    /\ UNCHANGED bound

\* d = s; d <<= r: a plain s gives a new register bound to d, a register s
\* is returned itself (d = s)
Promote ==
    /\ SharingReady
    /\ \E s \in Holders, d \in Holders, r \in Holders :
          LET self == objs[s]
              out == descr_ilshift(Val(heap, self), W_Obj(Val(heap, objs[r])))
              res == maskoff_high_at(heap, objs[r].bigval, self.nbits)
          IN /\ self.cls = "BitsWithNext" => d = s
             /\ IF out.err # "" THEN heap' = heap /\ objs' = objs
                ELSE IF self.nbits <= SHIFT
                THEN /\ heap' = heap
                     /\ objs' = [objs EXCEPT ![d] = WordObject(out.val)]
                ELSE /\ heap' = res.heap
                     /\ objs' = [objs EXCEPT ![d] =
                                   [self EXCEPT !.cls = "BitsWithNext",
                                                !.next_intval = 0,
                                                !.next_bigval = res.ref]]
             /\ call' = Made("ilshift", d,
                             IF out.err = "" THEN out.val ELSE Val(heap, objs[d]),
                             FALSE)
    /\ UNCHANGED bound

\* s._flip()
Commit ==
    /\ SharingReady
    /\ \E s \in Holders :
          LET self == objs[s]
              out == descr_flip(Val(heap, self))
              res == maskoff_high_at(heap, self.next_bigval, self.nbits)
          IN /\ IF out.err # "" THEN heap' = heap /\ objs' = objs
                ELSE IF self.nbits <= SHIFT
                THEN /\ heap' = heap
                     /\ objs' = [objs EXCEPT ![s] = WordObject(out.recv)]
                ELSE /\ heap' = res.heap
                     /\ objs' = [objs EXCEPT ![s].bigval = res.ref]
             /\ call' = Made("flip", s, out.recv, FALSE)
    /\ UNCHANGED bound

\* some other name is bound to the array s holds as its current payload
SharedArray(s) ==
    /\ objs[s].bigval # NoRef
    /\ \/ objs[s].next_bigval = objs[s].bigval
       \/ \E h \in Holders \ {s} :
             objs[s].bigval \in {objs[h].bigval, objs[h].next_bigval}

\* s[index] = v
WriteBit ==
    /\ SharingReady
    /\ \E s \in Holders :
          \E index \in {0, objs[s].nbits - 1}, v \in 0..1 :
             LET self == objs[s]
                 out == setitem_bit(Val(heap, self), index, W_Int(v))
                 res == setidx_at(heap, self.bigval, index, v)
             IN /\ IF out.err # "" THEN heap' = heap /\ objs' = objs
                   ELSE IF self.nbits <= SHIFT
                   THEN /\ heap' = heap
                        /\ objs' = [objs EXCEPT ![s].intval = out.val.intval]
                   ELSE /\ heap' = res.heap
                        /\ objs' = [objs EXCEPT ![s].bigval = res.ref]
                /\ call' = Made("setbit", s,
                                IF out.err = "" THEN out.val ELSE Val(heap, self),
                                SharedArray(s))
    /\ UNCHANGED bound

\* values written into a slice of the holder s: big integers, and the
\* object of each holder
SharingOperands(w) ==
    {W_Long(v) : v \in {0, 2^w - 1}} \cup {W_Obj(Val(heap, objs[h])) : h \in Holders}

\* s[start:stop] = w_other
WriteSlice ==
    /\ SharingReady
    /\ \E s \in Holders :
          \E start \in {0, SHIFT}, stop \in {1, objs[s].nbits} :
             /\ start < stop
             /\ \E w \in SharingOperands(stop - start) :
                   LET self == objs[s] IN
                   \E g \in Garbage(setitem_slice_undefined(Val(heap, self),
                                                            start, stop, w)) :
                      LET out == setitem_slice(Val(heap, self), start, stop, w, g)
                          res == setitem_slice_at(heap, self, start, stop, w, g)
                      IN /\ IF out.err # "" THEN heap' = heap /\ objs' = objs
                            ELSE IF self.nbits <= SHIFT
                            THEN /\ heap' = heap
                                 /\ objs' = [objs EXCEPT ![s].intval = out.val.intval]
                            ELSE /\ heap' = res.heap
                                 /\ objs' = [objs EXCEPT ![s].bigval = res.ref]
                         /\ call' = Made("setslice", s,
                                         IF out.err = "" THEN out.val
                                         ELSE Val(heap, self),
                                         SharedArray(s))
    /\ UNCHANGED bound

SharingNext ==
    \/ Clone \/ Construct \/ Part \/ Promote \/ Commit \/ WriteBit \/ WriteSlice

SharingSpec == SharingInit /\ [][SharingNext]_vars

----------------------------------------------------------------------------
(* The properties.                                                         *)

\* the exact integer result of an operator
Exact(op, a, b) ==
    CASE op = "add" -> a + b
      [] op = "sub" -> a - b
      [] op = "mul" -> a * b
      [] op = "and" -> AndZ(a, b)
      [] op = "or" -> OrZ(a, b)
      [] op = "xor" -> XorZ(a, b)

BinOps == ArithOps \cup LogicOps

\* the call returned an object
Returned == last.op # "idle" /\ last.err = ""

\* the payload the width selects lies in [0, 2^nbits)
InRange(b) == descr_uint(b) >= 0 /\ descr_uint(b) < 2^(b.nbits)

\* a big integer is normalised and not negative
Normalised(v) ==
    /\ v.size >= 1 /\ v.size <= Len(v.digits)
    /\ IF Magnitude(v.digits, v.size) = 0
       THEN v.size = 1 /\ v.sign = 0
       ELSE v.sign = 1 /\ v.digits[v.size] # 0

\* the object is in the form its width selects and its payload obeys I1..I3
WellFormed(b) ==
    /\ b.nbits >= 1
    /\ InRange(b)
    /\ IF b.nbits <= SHIFT THEN b.bigval = NoBig
       ELSE b.intval = 0 /\ Normalised(b.bigval)

\* the object is what the constructor returns for the integer v
IsNew(b, v) == b.nbits >= 1 /\ b = NewBits(b.nbits, v)

\* C1: every Bits value, bound to x or returned by a call, has a payload p
\* with 0 <= p < 2^nbits
C1_RangeInvariant ==
    /\ InRange(x)
    /\ Returned => InRange(last.val)

\* C2: for integers a and b and op in {+, -, *, &, |, ^},
\* (Bits<N>(a) op Bits<N>(b)).uint() = (a op b) mod 2^N; a and b range over
\* the payload of each operand and the integers 2^N below and above it
C2_SameWidthBinop ==
    (last.op \in BinOps /\ last.other.kind = "bits"
       /\ last.other.bits.nbits = last.self.nbits)
    => LET n == last.self.nbits
           p == descr_uint(last.self)
           q == descr_uint(last.other.bits)
       IN \A a \in {p - 2^n, p, p + 2^n}, b \in {q - 2^n, q, q + 2^n} :
             (IsNew(last.self, a) /\ IsNew(last.other.bits, b))
             => /\ last.err = ""
                /\ last.val.nbits = n
                /\ descr_uint(last.val) = Exact(last.op, a, b) % 2^n

\* C2 witness: a word-form add or mul of constructed operands overflowed the
\* machine word and took the big-integer fallback
C2_Witness ==
    /\ last.op \in {"add", "mul"} /\ last.other.kind = "bits"
    /\ last.self.nbits <= SHIFT /\ last.other.bits.nbits = last.self.nbits
    /\ IsNew(last.self, descr_uint(last.self))
    /\ IsNew(last.other.bits, descr_uint(last.other.bits))
    /\ ovfcheck_raises(iiop(last.op, last.self.intval, last.other.bits.intval))
    /\ Returned

\* C3: for a machine or big integer r of either sign, b + r, b - r and b * r
\* have width N and unsigned value (b.uint() op r) mod 2^N
C3_IntegerArith ==
    (last.op \in ArithOps /\ last.other.kind \in {"int", "long"})
    => LET n == last.self.nbits
           r == IF last.other.kind = "int" THEN last.other.intval
                ELSE tolong(last.other.num)
       IN /\ last.err = ""
          /\ last.val.nbits = n
          /\ descr_uint(last.val) = Exact(last.op, descr_uint(last.self), r) % 2^n

\* C4: for Bits x and y of different widths and op in {+, -, *, &, |, ^},
\* x op y has width max(N, M) and value (x.uint() op y.uint()) mod 2^max(N, M)
C4_MixedWidthBinop ==
    (last.op \in BinOps /\ last.other.kind = "bits"
       /\ last.other.bits.nbits # last.self.nbits)
    => LET n == Max(last.self.nbits, last.other.bits.nbits)
       IN /\ last.err = ""
          /\ last.val.nbits = n
          /\ descr_uint(last.val)
               = Exact(last.op, descr_uint(last.self), descr_uint(last.other.bits)) % 2^n

\* the mixed-width result on operands that obey the payload invariants
C4_OnWellFormed ==
    (WellFormed(last.self) /\ last.other.kind = "bits" /\ WellFormed(last.other.bits))
    => C4_MixedWidthBinop

\* C5: for a machine or big integer r, b & r, b | r and b ^ r are Bits<N>
\* that obey the payload invariants, in the form the width selects, with
\* uint() = (b.uint() op r) mod 2^N
C5_IntegerLogic ==
    (last.op \in LogicOps /\ last.other.kind \in {"int", "long"})
    => LET n == last.self.nbits
           r == IF last.other.kind = "int" THEN last.other.intval
                ELSE tolong(last.other.num)
       IN /\ last.err = ""
          /\ last.val.nbits = n
          /\ WellFormed(last.val)
          /\ descr_uint(last.val) = Exact(last.op, descr_uint(last.self), r) % 2^n

\* the integer an operand denotes
OperandValue(w) ==
    CASE w.kind = "int" -> w.intval
      [] w.kind = "long" -> tolong(w.num)
      [] w.kind = "bits" -> descr_uint(w.bits)

\* the call is on a slice the range check accepts
ValidSlice == last.start >= 0 /\ last.start < last.stop /\ last.stop <= last.self.nbits

\* the operand of a slice write fits in w bits
FitsSlice(w, width) ==
    IF w.kind = "bits" THEN w.bits.nbits <= width
    ELSE OperandValue(w) < 2^width /\ OperandValue(w) >= 0 - 2^(width - 1)

\* the integer p with its bits [start, stop) replaced by v mod 2^(stop-start)
WithSlice(p, start, stop, v) ==
    LET width == stop - start
    IN p - ((p \div 2^start) % 2^width) * 2^start + (v % 2^width) * 2^start

\* C6: after x[start:stop] = v with v fitting in stop-start bits, the bits
\* [start, stop) of x equal v mod 2^(stop-start) and every other bit of x is
\* unchanged
C6_SliceSetEffect ==
    (last.op = "setslice" /\ ValidSlice /\ FitsSlice(last.other, last.stop - last.start))
    => /\ last.err = ""
       /\ x.nbits = last.self.nbits
       /\ descr_uint(x) = WithSlice(descr_uint(last.self), last.start, last.stop,
                                    OperandValue(last.other))

\* C7: x[start:stop] is a Bits of width stop-start with value
\* floor(x.uint() / 2^start) mod 2^(stop-start), in word form when
\* stop-start <= SHIFT and in big form otherwise
C7_SliceGet ==
    (last.op = "getslice" /\ ValidSlice)
    => LET width == last.stop - last.start
       IN /\ last.err = ""
          /\ last.val.nbits = width
          /\ descr_uint(last.val) = (descr_uint(last.self) \div 2^(last.start)) % 2^width
          /\ (width <= SHIFT) <=> (last.val.bigval = NoBig)

\* C8: for 0 <= i < N, x[i] returns a Bits<1> equal to bit i of x.uint()
C8_IndexGet ==
    (last.op = "getbit" /\ last.start >= 0 /\ last.start < last.self.nbits)
    => /\ last.err = ""
       /\ last.val.nbits = 1
       /\ descr_uint(last.val) = (descr_uint(last.self) \div 2^(last.start)) % 2

C10_SliceRoundTrip ==
    (last.op = "setslice" /\ ValidSlice
       /\ last.other = W_Obj(getitem_slice(last.self, last.start, last.stop).val))
    => /\ last.err = ""
       /\ descr_uint(x) = descr_uint(last.self)
       /\ descr_eq(x, W_Obj(last.self)).intval = 1

\* floor( u / 2^s ), also for an amount of several digits
ShiftedRight(u, s) ==
    IF s > 2 * MaxBits THEN (IF u < 0 THEN 0 - 1 ELSE 0) ELSE u \div 2^s

\* u * 2^s mod 2^n, also for an amount of several digits
ShiftedLeft(u, s, n) ==
    IF s > 2 * MaxBits THEN 0 ELSE (u * 2^s) % 2^n

\* the shift returned a Bits of the width of self
ShiftReturned(op) ==
    /\ last.op = op
    /\ last.other.value >= 0

\* C11: for a shift amount of value s >= 0 given as a Bits, a machine integer
\* or a big integer, b >> s is a Bits of the width of b with unsigned value
\* floor( b.uint() / 2^s ), and an amount of the same value given in another
\* kind returns the same
C11_RightShift ==
    ShiftReturned("rshift") =>
       /\ last.err = ""
       /\ last.val.nbits = last.self.nbits
       /\ descr_uint(last.val) = ShiftedRight(descr_uint(last.self), last.other.value)
       /\ \A a \in ShiftAmounts(last.self.nbits) :
             a.value = last.other.value =>
                descr_rshift(last.self, a) = [err |-> last.err, val |-> last.val]

\* C12: for a shift amount of value s >= 0 given as a Bits, a machine integer
\* or a big integer, b << s is a Bits of the width N of b with unsigned value
\* ( b.uint() * 2^s ) mod 2^N, which is zero for every s >= N
C12_LeftShift ==
    ShiftReturned("lshift") =>
       /\ last.err = ""
       /\ last.val.nbits = last.self.nbits
       /\ descr_uint(last.val) =
             ShiftedLeft(descr_uint(last.self), last.other.value, last.self.nbits)
       /\ last.other.value >= last.self.nbits => descr_uint(last.val) = 0

\* C13: for 0 <= s < N, ( x << s ) >> s has unsigned value
\* x.uint() mod 2^( N - s ); the state is the one after x << s, and the right
\* shift is taken of the object it returned, by the same amount
C13_ShiftRoundTrip ==
    (/\ ShiftReturned("lshift")
     /\ last.other.value < last.self.nbits) =>
       /\ last.err = ""
       /\ LET back == descr_rshift(last.val, last.other) IN
          /\ back.err = ""
          /\ back.val.nbits = last.self.nbits
          /\ descr_uint(back.val) =
                descr_uint(last.self) % 2^(last.self.nbits - last.other.value)

\* C14: ~x is a Bits of the width N of x with value 2^N - 1 - x.uint(), and
\* ~x + x == Bits<N>( 2^N - 1 ) returns 1
C14_Complement ==
    last.op = "invert" =>
       /\ last.err = ""
       /\ last.val.cls = "Bits"
       /\ last.val.nbits = last.self.nbits
       /\ descr_uint(last.val) = 2^(last.self.nbits) - 1 - descr_uint(last.self)
       /\ LET sum == descr_binop("add", last.val, W_Obj(last.self)) IN
          /\ sum.err = ""
          /\ descr_eq(sum.val, W_Obj(NewBits(last.self.nbits, 2^(last.self.nbits) - 1))).intval = 1

CmpOps == {"lt", "le", "eq", "ne", "gt", "ge"}

\* the value an operand is compared as: a Bits as its unsigned value, an
\* integer r as r mod 2^n
CmpValue(w, n) ==
    IF w.kind = "bits" THEN descr_uint(w.bits) ELSE OperandValue(w) % 2^n

\* C15: each of <, <=, ==, !=, >, >= of a Bits<N> x and a Bits of any width and
\* form, or an integer r taken as r mod 2^N, returns the Bits<1> truth value of
\* the comparison of the two unsigned values; exactly one of <, ==, > returns
\* 1, <= is the negation of >, >= of < and != of ==
C15_Comparison ==
    last.op \in CmpOps =>
       LET u == descr_uint(last.self)
           v == CmpValue(last.other, last.self.nbits)
           t(opname) == descr_cmp(opname, last.self, last.other).intval
       IN /\ last.err = ""
          /\ last.val = W_Bits(1, Truth(iicmp(last.op, u, v)), NoBig)
          /\ t("lt") + t("eq") + t("gt") = 1
          /\ t("le") = 1 - t("gt")
          /\ t("ge") = 1 - t("lt")
          /\ t("ne") = 1 - t("eq")

\* C16: x.int() = x.uint() - m * 2^N with m the bit N - 1 of x, in word form
\* and in big form, also when the digit list of x ends below the digit of
\* bit N - 1
C16_SignedProjection ==
    last.op = "int" =>
       LET u == descr_uint(last.self)
           n == last.self.nbits
           m == (u \div 2^(n - 1)) % 2
       IN /\ last.err = ""
          /\ last.num = u - m * 2^n

\* C17: Bits<N>( value ), for a value given as a Bits of any width and form,
\* a machine integer or a big integer of either sign, has width N and unsigned
\* value ( value mod 2^N ), in word form when N <= SHIFT and in big form
\* otherwise
C17_Construction ==
    (last.op = "new" /\ last.start >= 1 /\ last.start <= 512) =>
       /\ last.err = ""
       /\ last.val.nbits = last.start
       /\ descr_uint(last.val) = OperandValue(last.other) % 2^(last.start)
       /\ IF last.start <= SHIFT THEN last.val.bigval = NoBig
          ELSE last.val.intval = 0 /\ last.val.bigval # NoBig
       /\ x = last.val

\* the shadow payload the width selects, as an integer
Shadow(b) == IF b.nbits <= SHIFT THEN b.next_intval ELSE tolong(b.next_bigval)

\* the right-hand side of <<= is a Bits of the width of the receiver
AssignAccepted ==
    /\ last.op = "ilshift"
    /\ last.other.kind = "bits"
    /\ last.other.bits.nbits = last.self.nbits

\* C18: r <<= y on a plain Bits<N> r with a Bits<N> y returns a new
\* BitsWithNext<N> with the current value of r and the shadow value of y and
\* leaves r as it is; the register reads r's value until _flip() and y's value
\* after it
C18_Promotion ==
    (AssignAccepted /\ last.self.cls = "Bits") =>
       LET out == descr_ilshift(last.self, last.other)
           y == last.other.bits
       IN /\ last.err = ""
          /\ last.val.cls = "BitsWithNext"
          /\ last.val.nbits = last.self.nbits
          /\ ~out.same
          /\ out.recv = last.self
          /\ x = last.val
          /\ descr_uint(x) = descr_uint(last.self)
          /\ Shadow(x) = descr_uint(y)
          /\ descr_flip(x).err = ""
          /\ descr_uint(descr_flip(x).recv) = descr_uint(y)

\* C19: x <<= y on a register leaves the current payload (uint(), the
\* comparisons, the hash) as it was and returns the register itself; the
\* shadow is the current value of y, also when y is a register, and the next
\* _flip() makes it the current value
C19_DeferredUpdate ==
    (AssignAccepted /\ last.self.cls = "BitsWithNext") =>
       LET out == descr_ilshift(last.self, last.other)
           y == last.other.bits
       IN /\ last.err = ""
          /\ out.same
          /\ x = last.val
          /\ x.cls = "BitsWithNext"
          /\ x.intval = last.self.intval /\ x.bigval = last.self.bigval
          /\ descr_uint(x) = descr_uint(last.self)
          /\ descr_hash(x) = descr_hash(last.self)
          /\ \A opname \in CmpOps :
                descr_cmp(opname, x, last.other) = descr_cmp(opname, last.self, last.other)
          /\ Shadow(x) = descr_uint(y)
          /\ descr_uint(descr_flip(x).recv) = descr_uint(y)

\* C20: after _flip() the current value is the shadow and the shadow is as it
\* was, and a second _flip() changes nothing; an index or slice write leaves
\* the shadow as it was, and a _flip() after it makes the shadow the current
\* value again
C20_FlipCommits ==
    /\ (last.op = "flip" /\ last.self.cls = "BitsWithNext") =>
          /\ last.err = ""
          /\ x.cls = "BitsWithNext" /\ x.nbits = last.self.nbits
          /\ descr_uint(x) = Shadow(last.self)
          /\ x.next_intval = last.self.next_intval
          /\ x.next_bigval = last.self.next_bigval
          /\ descr_flip(x).recv = x
    /\ (last.op \in {"setbit", "setslice"} /\ last.self.cls = "BitsWithNext"
          /\ last.err = "") =>
          /\ x.cls = "BitsWithNext"
          /\ x.next_intval = last.self.next_intval
          /\ x.next_bigval = last.self.next_bigval
          /\ descr_uint(descr_flip(x).recv) = Shadow(last.self)

\* a register of the big form whose current value differed from its shadow
\* has been flipped, after as many operations as the model allows
C20_Witness ==
    /\ last.op = "flip" /\ last.err = ""
    /\ last.self.cls = "BitsWithNext" /\ last.self.nbits > SHIFT
    /\ descr_uint(last.self) # Shadow(last.self)
    /\ descr_uint(x) = Shadow(last.self)
    /\ steps = MaxSteps + MaxRegisterSteps

\* C21: x[start:stop] = v with v a Bits wider than stop-start raises
\* ValueError and leaves x as it was, in the word form and in the big form
C21_TooWideBits ==
    (last.op = "setslice" /\ ValidSlice /\ last.other.kind = "bits"
       /\ last.other.bits.nbits > last.stop - last.start)
    => /\ last.err = "ValueError"
       /\ x = last.self

\* C22: x[start:stop] = v with v a machine integer or a big integer and
\* w = stop-start: v >= 2^w raises ValueError and leaves x as it was; every v
\* with 0 <= v < 2^w is accepted; a negative v is accepted exactly when the
\* bit length of its magnitude is at most w, and the slice then holds
\* v mod 2^w; the rule is the same for both kinds of integer and both forms
C22_IntegerFit ==
    (last.op = "setslice" /\ ValidSlice /\ last.other.kind \in {"int", "long"})
    => LET v == OperandValue(last.other)
           w == last.stop - last.start
       IN IF Abs(v) < 2^w
          THEN /\ last.err = ""
               /\ v < 0 => descr_uint(x) = WithSlice(descr_uint(last.self), last.start,
                                                     last.stop, v)
          ELSE /\ last.err = "ValueError"
               /\ x = last.self

\* C23: x >> s and x << s with s a negative machine integer or a negative
\* big integer raise ValueError, in the word form and in the big form, and
\* return no object
C23_NegativeShift ==
    (last.op \in {"rshift", "lshift"} /\ last.other.given \in {"int", "long"}
       /\ last.other.value < 0)
    => /\ last.err = "ValueError"
       /\ last.val = NoObject

\* C24: x[i] and x[i] = v with i < 0 or i >= N raise ValueError and leave x
\* as it was, whether i is a machine integer, a big integer or a Bits;
\* x[start:stop] and x[start:stop] = v with start >= stop, start < 0 or
\* stop > N raise ValueError and leave x as it was
C24_IndexValidation ==
    /\ (last.op \in {"getbit", "setbit"}
          /\ (last.start < 0 \/ last.start >= last.self.nbits))
       => /\ last.err = "ValueError"
          /\ x = last.self
    /\ (last.op \in {"getslice", "setslice"} /\ ~ValidSlice)
       => /\ last.err = "ValueError"
          /\ x = last.self

\* C25: x <<= w with w not a Bits raises TypeError, with w a Bits of another
\* width raises ValueError, and _flip() on a plain Bits raises TypeError; in
\* each case the class, the current payload and the shadow of x are as they
\* were and no object is returned
C25_RegisterErrors ==
    /\ (last.op = "ilshift" /\ last.other.kind # "bits")
       => /\ last.err = "TypeError"
          /\ x = last.self /\ last.val = NoObject
    /\ (last.op = "ilshift" /\ last.other.kind = "bits"
          /\ last.other.bits.nbits # last.self.nbits)
       => /\ last.err = "ValueError"
          /\ x = last.self /\ last.val = NoObject
    /\ (last.op = "flip" /\ last.self.cls = "Bits")
       => /\ last.err = "TypeError"
          /\ x = last.self /\ last.val = NoObject

\* a register whose shadow differs from its current value has refused a Bits
\* of another width
C25_Witness ==
    /\ last.op = "ilshift" /\ last.err = "ValueError"
    /\ last.self.cls = "BitsWithNext" /\ last.self.nbits > SHIFT
    /\ Shadow(last.self) # descr_uint(last.self)
    /\ x = last.self

\* C26: in every reachable state bool( x ) is true exactly when
\* x.uint() != 0, for the object bound to x and for every call of bool
C26_Bool ==
    /\ descr_bool(x) <=> (descr_uint(x) # 0)
    /\ last.op = "bool" => ((last.num = 1) <=> (descr_uint(last.self) # 0))

\* the plain Bits with the width and the current payload of b
Current(b) == W_Bits(b.nbits, b.intval, b.bigval)

\* C27: when x == y returns 1 for a Bits y, hash( x ) = hash( y ); the hash
\* of a Bits in range is that of the Bits constructed from its width and
\* value, whatever operations made it; the shadow of a register has no part
\* in it
C27_HashEquality ==
    /\ (last.op = "eq" /\ last.other.kind = "bits" /\ last.val.intval = 1)
       => descr_hash(last.self) = descr_hash(last.other.bits)
    /\ InRange(x) => descr_hash(x) = descr_hash(NewBits(x.nbits, descr_uint(x)))
    /\ descr_hash(x) = descr_hash(Current(x))
    /\ last.op = "hash" => last.num = descr_hash(Current(last.self))

\* C28: every big integer stored in a Bits or in the shadow of a register,
\* by the constructor, an operator, a slice read, an index or slice write,
\* <<= or _flip(), is not negative and is normalised: its top digit is not
\* 0, or it is zero with size 1 and sign 0
C28_Normalisation ==
    /\ x.nbits > SHIFT => Normalised(x.bigval)
    /\ (x.cls = "BitsWithNext" /\ x.nbits > SHIFT) => Normalised(x.next_bigval)
    /\ (Returned /\ last.val.nbits > SHIFT) => Normalised(last.val.bigval)

\* C29: a digit array that more than one place refers to is never written
\* in place.  No array allocated before an operation differs after it, and
\* after an index or slice write on one holder every other holder has the
\* current payload and the shadow it had, and so has the shadow of the
\* holder written.
C29_ValueSemantics ==
    /\ \A a \in 1..Len(call.heap) : heap[a] = call.heap[a]
    /\ call.op \in {"setbit", "setslice"} =>
          /\ \A h \in Holders \ {call.target} :
                Val(heap, objs[h]) = Val(call.heap, call.objs[h])
          /\ Val(heap, objs[call.target]).next_bigval
                = Val(call.heap, call.objs[call.target]).next_bigval

\* an index or slice write changed a register whose current payload was
\* the array of its shadow and of the other holder too
C29_Witness ==
    /\ call.op \in {"setbit", "setslice"}
    /\ call.shared
    /\ call.objs[call.target].cls = "BitsWithNext"
    /\ call.objs[call.target].bigval = call.objs[call.target].next_bigval
    /\ \E h \in Holders \ {call.target} :
          call.objs[h].bigval = call.objs[call.target].bigval
    /\ Val(heap, objs[call.target]) # Val(call.heap, call.objs[call.target])

----------------------------------------------------------------------------
(* What the slice and index operations do keep, on operands that obey the  *)
(* payload invariants.                                                     *)

OperandWellFormed == last.other.kind = "bits" => WellFormed(last.other.bits)

\* the slice write is right when x and the operand obey the invariants and
\* the write makes no undefined read
SliceSet_WhereDefined ==
    (/\ WellFormed(last.self) /\ OperandWellFormed
     /\ ~setitem_slice_undefined(last.self, last.start, last.stop, last.other))
    => C6_SliceSetEffect

\* the slice read is right when x obeys the invariants
SliceGet_OnWellFormed == WellFormed(last.self) => C7_SliceGet

\* the index read is right when x obeys the invariants and the read is defined
IndexGet_WhereDefined ==
    (WellFormed(last.self) /\ ~getitem_undefined(last.self, last.start))
    => C8_IndexGet

\* the index write leaves the right integer in x when x and the operand obey
\* the invariants
IndexSet_Value ==
    (/\ last.op = "setbit" /\ last.start >= 0 /\ last.start < last.self.nbits
     /\ WellFormed(last.self) /\ OperandWellFormed
     /\ OperandValue(last.other) \in {0, 1}
     /\ (last.other.kind = "bits" => last.other.bits.nbits = 1))
    => /\ last.err = ""
       /\ descr_uint(x) = WithSlice(descr_uint(last.self), last.start, last.start + 1,
                                    OperandValue(last.other))

\* a right shift by an amount s >= 0, but for the word form shifted by a big
\* integer
RightShift_OnWellFormed ==
    (/\ ShiftReturned("rshift")
     /\ ~(last.self.nbits <= SHIFT /\ last.other.given = "long")
     /\ WellFormed(last.self)) =>
       /\ last.err = ""
       /\ last.val.nbits = last.self.nbits
       /\ descr_uint(last.val) = ShiftedRight(descr_uint(last.self), last.other.value)
       /\ WellFormed(last.val)

\* a left shift by an amount s >= 0
LeftShift_OnWellFormed ==
    (ShiftReturned("lshift") /\ WellFormed(last.self)) =>
       /\ last.err = ""
       /\ last.val.nbits = last.self.nbits
       /\ descr_uint(last.val) =
             ShiftedLeft(descr_uint(last.self), last.other.value, last.self.nbits)
       /\ WellFormed(last.val)

\* the shift round trip with the amount given as a machine integer or a Bits
ShiftRoundTrip_OnWellFormed ==
    (/\ ShiftReturned("lshift")
     /\ last.other.value < last.self.nbits
     /\ last.other.given # "long"
     /\ WellFormed(last.self)) =>
       /\ last.err = ""
       /\ descr_uint(descr_rshift(last.val, last.other).val) =
             descr_uint(last.self) % 2^(last.self.nbits - last.other.value)

\* the complement of an object that obeys the payload invariants
Complement_OnWellFormed ==
    (last.op = "invert" /\ WellFormed(last.self)) =>
       /\ WellFormed(last.val)
       /\ descr_uint(last.val) = 2^(last.self.nbits) - 1 - descr_uint(last.self)
       /\ LET sum == descr_binop("add", last.val, W_Obj(last.self)) IN
          descr_eq(sum.val, W_Obj(NewBits(last.self.nbits, 2^(last.self.nbits) - 1))).intval = 1

\* the comparisons of an object that obeys the payload invariants
Comparison_OnWellFormed == WellFormed(last.self) => C15_Comparison

\* x.int() where the digit of bit N - 1 is in the digit list
Int_WhereDefined ==
    (WellFormed(last.self) /\ ~int_undefined(last.self)) => C16_SignedProjection

\* the construction from a value that obeys the payload invariants
Construction_OnWellFormed ==
    OperandWellFormed =>
       /\ C17_Construction
       /\ last.op = "new" => WellFormed(last.val)

\* <<= with a right-hand side that obeys the payload invariants
Assign_OnWellFormed ==
    OperandWellFormed => (C18_Promotion /\ C19_DeferredUpdate)

\* a Bits wider than the slice is refused when x is in the word form
TooWideBits_WordForm ==
    last.self.nbits <= SHIFT => C21_TooWideBits

\* the fit rule of integers holds when x obeys the invariants and the write
\* makes no undefined read
IntegerFit_WhereDefined ==
    (/\ WellFormed(last.self)
     /\ ~setitem_slice_undefined(last.self, last.start, last.stop, last.other))
    => C22_IntegerFit

\* a negative amount is refused when x is in the word form
NegativeShift_WordForm ==
    last.self.nbits <= SHIFT => C23_NegativeShift

\* x >> s refuses a negative machine integer in both forms
NegativeShift_RightByMachineInteger ==
    (last.op = "rshift" /\ last.other.given = "int") => C23_NegativeShift

\* in the big form a negative big integer shifts by its magnitude
NegativeShift_MagnitudeUsed ==
    (last.op \in {"rshift", "lshift"} /\ last.self.nbits > SHIFT
       /\ last.other.given = "long" /\ last.other.value < 0 /\ WellFormed(last.self))
    => /\ last.err = ""
       /\ descr_uint(last.val) =
             IF last.op = "rshift"
             THEN ShiftedRight(descr_uint(last.self), 0 - last.other.value)
             ELSE ShiftedLeft(descr_uint(last.self), 0 - last.other.value, last.self.nbits)

\* no index of the call is a big integer that toint() refuses
IndexDecoded ==
    \A i \in 1..Len(last.index) :
       ~(last.index[i].given = "long" /\ last.index[i].numdigits > 1)

\* the validation of indices and slices holds but for a big integer of
\* several digits and for x[i] with a negative machine integer i
IndexValidation_WhereChecked ==
    (/\ IndexDecoded
     /\ ~(last.op = "getbit" /\ last.index[1].given = "int" /\ last.start < 0))
    => C24_IndexValidation

\* bool( x ) is right whenever the payload of x is normalised and in range
Bool_OnWellFormed ==
    /\ WellFormed(x) => (descr_bool(x) <=> (descr_uint(x) # 0))
    /\ (last.op = "bool" /\ WellFormed(last.self))
       => ((last.num = 1) <=> (descr_uint(last.self) # 0))

\* equal Bits of one width hash alike when both obey the invariants; the
\* other parts of the hash contract hold everywhere
Hash_SameWidth ==
    /\ (/\ last.op = "eq" /\ last.other.kind = "bits" /\ last.val.intval = 1
        /\ last.other.bits.nbits = last.self.nbits
        /\ WellFormed(last.self) /\ WellFormed(last.other.bits))
       => descr_hash(last.self) = descr_hash(last.other.bits)
    /\ InRange(x) => descr_hash(x) = descr_hash(NewBits(x.nbits, descr_uint(x)))
    /\ descr_hash(x) = descr_hash(Current(x))
    /\ last.op = "hash" => last.num = descr_hash(Current(last.self))

\* the left shift made no undefined read
ShiftDefined == last.op = "lshift" => ~lshift_undefined(last.self, last.other)

\* but for the index write and the slice write, a call on operands that obey
\* the invariants, with no negative integer among them and no undefined
\* read, stores normalised big integers only
Normalisation_OnWellFormed ==
    (/\ last.op \notin {"idle", "setbit", "setslice"}
     /\ last.self.nbits > 0 => WellFormed(Current(last.self))
     /\ OperandWellFormed
     /\ last.other.kind \in {"int", "long"} => OperandValue(last.other) >= 0
     /\ (last.op = "flip" /\ last.self.cls = "BitsWithNext" /\ last.self.nbits > SHIFT)
        => Normalised(last.self.next_bigval)
     /\ ShiftDefined)
    => /\ (last.op = "flip" /\ x.nbits > SHIFT /\ x.cls = "BitsWithNext")
          => Normalised(x.bigval) /\ Normalised(x.next_bigval)
       /\ (Returned /\ last.val.nbits > SHIFT)
          => /\ Normalised(last.val.bigval)
             /\ last.val.cls = "BitsWithNext" => Normalised(last.val.next_bigval)

\* the operations on shared arrays leave or return the objects the
\* digit-level handlers compute
Sharing_AgreesWithValues ==
    call.op # "none" => Val(heap, objs[call.target]) = call.val

====
